---- MODULE Spec2Model ----
(***************************************************************************)
(* A model of annas-mcp's retrieval core (package anna): FindBook,         *)
(* LookupDOI, Book.Download and Paper.Download, with the helpers they      *)
(* call.  Go strings are TLA+ strings (byte sequences for TLC: Len, \o,    *)
(* SubSeq work on them); an error value is its message.  One behaviour is  *)
(* one call of one operation; the network and the file system are the      *)
(* environment and every outcome they can produce is a choice.             *)
(***************************************************************************)
EXTENDS Integers, Sequences, FiniteSets, TLC

VARIABLES
    env,    \* the process environment: ANNAS_SECRET_KEY, ANNAS_DOWNLOAD_PATH, ANNAS_BASE_URL
    fs,     \* the file system: path |-> file content
    fs0,    \* the file system as it was when the call began
    call,   \* the running operation and its arguments
    pc,     \* the position of the call in its code
    loc,    \* the local variables of the call
    net,    \* the requests sent by the call, in order
    log,    \* the log events written by the call, in order
    ret     \* what the call returned: [err, val]

vars == <<env, fs, fs0, call, pc, loc, net, log, ret>>

----------------------------------------------------------------------------
(* Bounds of the model. *)

\* longest response body of a failed API call, in bytes beyond the snippet limit
MaxBodyOver == 1
\* most chunks a download body arrives in
MaxChunks == 2
\* most anchors a fetched page carries
MaxAnchors == 2

\* the longest of the short names sanitizeFilename is applied to
MaxInputLen == 3

\* the most segments of a metadata string
MaxSegments == 4

(* Program constants. *)
SnippetLimit == 512
StatusOK == 200
MaxNameLen == 200

----------------------------------------------------------------------------
(* Strings. *)

Min(a, b) == IF a < b THEN a ELSE b

\* strings.HasPrefix
HasPrefix(s, p) == Len(s) >= Len(p) /\ SubSeq(s, 1, Len(p)) = p

\* strings.TrimPrefix
TrimPrefix(s, p) == IF HasPrefix(s, p) THEN SubSeq(s, Len(p) + 1, Len(s)) ELSE s

\* the byte of s at position i (1-based), as a one-byte string
At(s, i) == SubSeq(s, i, i)

RECURSIVE Rep(_, _)
\* the string s repeated n times
Rep(s, n) ==
    IF n = 0 THEN ""
    ELSE IF n % 2 = 0 THEN LET h == Rep(s, n \div 2) IN h \o h
    ELSE s \o Rep(s, n - 1)

RECURSIVE Itoa(_)
\* fmt's %d of a natural number
Itoa(n) ==
    LET Digit(d) == At("0123456789", d + 1)
    IN IF n < 10 THEN Digit(n) ELSE Itoa(n \div 10) \o Digit(n % 10)

\* an error value: nil, or a message
NilErr == [isNil |-> TRUE, msg |-> ""]
Err(m) == [isNil |-> FALSE, msg |-> m]

\* fmt.Errorf("...: %w", err)
Wrap(m, e) == Err(m \o ": " \o e.msg)

\* strings.Index of the one-byte string c in s, 0-based, -1 when absent
IndexByte(s, c) ==
    LET RECURSIVE From(_)
        From(i) ==
            IF i > Len(s) THEN -1
            ELSE IF At(s, i) = c THEN i - 1
            ELSE From(i + 1)
    IN From(1)

UpperLetters == "ABCDEFGHIJKLMNOPQRSTUVWXYZ"
LowerLetters == "abcdefghijklmnopqrstuvwxyz"

RECURSIVE ToLower(_)
\* strings.ToLower (ASCII)
ToLower(s) ==
    LET i == IndexByte(UpperLetters, Head(s))
    IN IF s = "" THEN ""
       ELSE (IF i >= 0 THEN At(LowerLetters, i + 1) ELSE Head(s)) \o ToLower(Tail(s))

RECURSIVE ToUpper(_)
\* strings.ToUpper (ASCII)
ToUpper(s) ==
    LET i == IndexByte(LowerLetters, Head(s))
    IN IF s = "" THEN ""
       ELSE (IF i >= 0 THEN At(UpperLetters, i + 1) ELSE Head(s)) \o ToUpper(Tail(s))

\* strings.Index: the 0-based position of the first sub in s, -1 when absent
Index(s, sub) ==
    LET at == { i \in 1 .. Len(s) - Len(sub) + 1 : SubSeq(s, i, i + Len(sub) - 1) = sub }
    IN IF at = {} THEN -1 ELSE (CHOOSE i \in at : \A j \in at : i <= j) - 1

\* strings.Contains
Contains(s, sub) == Index(s, sub) >= 0

\* the white space strings.TrimSpace removes (ASCII)
SpaceBytes == {" ", "\t", "\n", "\r", "\f"}

\* strings.TrimSpace
TrimSpace(s) ==
    LET RECURSIVE TrimLeft(_)
        TrimLeft(t) == IF t # "" /\ Head(t) \in SpaceBytes THEN TrimLeft(Tail(t)) ELSE t
        RECURSIVE TrimRight(_)
        TrimRight(t) ==
            IF t # "" /\ At(t, Len(t)) \in SpaceBytes
            THEN TrimRight(SubSeq(t, 1, Len(t) - 1)) ELSE t
    IN TrimRight(TrimLeft(s))

RECURSIVE Split(_, _)
\* strings.Split(s, sep), sep not empty
Split(s, sep) ==
    LET i == Index(s, sep)
    IN IF i < 0 THEN <<s>>
       ELSE <<SubSeq(s, 1, i)>> \o Split(SubSeq(s, i + Len(sep) + 1, Len(s)), sep)

----------------------------------------------------------------------------
(* The composite metadata of a search result. *)

\* the separator of the segments, a middle dot between spaces
MetaSeparator == " · "

\* another glyph in the place of the check mark
OtherMark == "+"

\* the check mark that leads the language segment; U+2705 in the source, a
\* glyph outside the character set of this module, written here as "¤"
CheckMark == "¤"

Digits == {"0", "1", "2", "3", "4", "5", "6", "7", "8", "9"}

\* the bytes of s from position a to position b, as far as s reaches
Slice(s, a, b) == IF a > Len(s) THEN "" ELSE SubSeq(s, a, Min(b, Len(s)))

\* sizeRegex.MatchString: \d+\.?\d*\s*(MB|KB|GB|TB) matches s from some
\* position on
SizeMatch(s) ==
    LET RECURSIVE SkipWhile(_, _)
        \* the first position at or after i whose byte is not in S
        SkipWhile(i, S) ==
            IF i <= Len(s) /\ At(s, i) \in S THEN SkipWhile(i + 1, S) ELSE i
        RegexSpace == {" ", "\t", "\n", "\f", "\r"}
        UnitAt(c) == Slice(s, c, c + 1) \in {"MB", "KB", "GB", "TB"}
        MatchesAt(p) ==
            /\ At(s, p) \in Digits
            /\ LET a == SkipWhile(p, Digits)
                   b == IF a <= Len(s) /\ At(s, a) = "." THEN SkipWhile(a + 1, Digits) ELSE a
               IN UnitAt(SkipWhile(b, RegexSpace)) \/ UnitAt(SkipWhile(a, RegexSpace))
    IN \E p \in 1 .. Len(s) : MatchesAt(p)

\* the alternatives of formatRegex in the order they are tried (DOCX? takes
\* the X when it can)
FormatTokens ==
    <<"EPUB", "PDF", "MOBI", "AZW3", "AZW", "DJVU", "CBZ", "CBR", "FB2", "DOCX", "DOC", "TXT">>

\* the bytes \w matches: letters, digits and the underscore
WordBytes ==
    { At(UpperLetters, i) : i \in 1 .. Len(UpperLetters) }
    \cup { At(LowerLetters, i) : i \in 1 .. Len(LowerLetters) }
    \cup Digits \cup {"_"}

\* the alternatives that match s at position p between two word boundaries
FormatsAt(s, p) ==
    LET IsWordAt(i) == i >= 1 /\ i <= Len(s) /\ At(s, i) \in WordBytes
        \* \b holds between positions i - 1 and i
        BoundaryAt(i) == IsWordAt(i - 1) # IsWordAt(i)
    IN IF ~BoundaryAt(p) THEN {}
       ELSE { k \in 1 .. Len(FormatTokens) :
                /\ BoundaryAt(p + Len(FormatTokens[k]))
                /\ ToUpper(Slice(s, p, p + Len(FormatTokens[k]) - 1)) = FormatTokens[k] }

\* formatRegex.MatchString
FormatMatch(s) == \E p \in 1 .. Len(s) : FormatsAt(s, p) # {}

\* the whole segment in the place of the matched token
WholeSegment(s) == s

\* formatRegex.FindStringSubmatch(s)[1]: the leftmost match, of the first
\* alternative that matches there
FormatSubmatch(s) ==
    LET p == CHOOSE q \in 1 .. Len(s) :
                 FormatsAt(s, q) # {} /\ \A r \in 1 .. q - 1 : FormatsAt(s, r) = {}
        k == CHOOSE j \in FormatsAt(s, p) : \A i \in FormatsAt(s, p) : j <= i
    IN SubSeq(s, p, p + Len(FormatTokens[k]) - 1)

\* a parser that reads the segments however few they are
extractMetaInformationAnyLength(meta) ==
    LET parts == Split(meta, MetaSeparator)
        RECURSIVE Scan(_, _, _)
        Scan(i, format, size) ==
            IF i > Len(parts) \/ (format # "" /\ size # "") THEN <<format, size>>
            ELSE LET part == TrimSpace(parts[i])
                     size2 == IF size = "" /\ SizeMatch(part) THEN part ELSE size
                     format2 == IF format = "" /\ FormatMatch(part)
                                THEN ToUpper(FormatSubmatch(part)) ELSE format
                 IN Scan(i + 1, format2, size2)
    IN LET found == Scan(2, "", "")
       IN [language |-> "", format |-> found[1], size |-> found[2]]

\* extractMetaInformation: [language, format, size]
extractMetaInformation(meta) ==
    LET parts == Split(meta, MetaSeparator)
        languagePart == TrimSpace(parts[1])
        idx == Index(languagePart, "[")
        language ==
            IF idx > 0
            THEN TrimSpace(TrimPrefix(TrimSpace(SubSeq(languagePart, 1, idx)), CheckMark))
            ELSE ""
        RECURSIVE Scan(_, _, _)
        \* the loop over the segments after the first: format and size so far
        Scan(i, format, size) ==
            IF i > Len(parts) \/ (format # "" /\ size # "") THEN <<format, size>>
            ELSE LET part == TrimSpace(parts[i])
                     size2 == IF size = "" /\ SizeMatch(part) THEN part ELSE size
                     format2 == IF format = "" /\ FormatMatch(part)
                                THEN ToUpper(FormatSubmatch(part)) ELSE format
                 IN Scan(i + 1, format2, size2)
    IN IF Len(parts) < 3
       THEN [language |-> "", format |-> "", size |-> ""]
       ELSE LET found == Scan(2, "", "")
            IN [language |-> language, format |-> found[1], size |-> found[2]]

----------------------------------------------------------------------------
(* File names and paths. *)

\* the bytes the pattern [<>:"/\\|?*\x00-\x1f] matches; of the control bytes a
\* TLA+ string can hold tab, newline, form feed and carriage return
unsafeFilenameChars ==
    {"<", ">", ":", "\"", "/", "\\", "|", "?", "*", "\t", "\n", "\f", "\r"}

\* filepath.Base (Unix)
Base(path) ==
    LET RECURSIVE StripTrailingSlashes(_)
        StripTrailingSlashes(t) ==
            IF Len(t) > 0 /\ At(t, Len(t)) = "/"
            THEN StripTrailingSlashes(SubSeq(t, 1, Len(t) - 1))
            ELSE t
        p == StripTrailingSlashes(path)
        slashes == { i \in 1 .. Len(p) : At(p, i) = "/" }
        \* the position of the last "/" of p, 0 when there is none
        LastSlash == IF slashes = {} THEN 0 ELSE CHOOSE i \in slashes : \A j \in slashes : j <= i
        q == SubSeq(p, LastSlash + 1, Len(p))
    IN IF path = "" THEN "."
       ELSE IF q = "" THEN "/" ELSE q

\* a sanitizer that only takes the base name
sanitizeFilenameBaseOnly(filename) == Base(filename)

\* a sanitizer that only turns each ".." into "."
sanitizeFilenameHalvesDots(filename) ==
    LET RECURSIVE Halve(_)
        Halve(t) ==
            LET i == Index(t, "..")
            IN IF i < 0 THEN t
               ELSE SubSeq(t, 1, i) \o "." \o Halve(SubSeq(t, i + 3, Len(t)))
    IN Halve(filename)

\* a sanitizer that does not cut the name
sanitizeFilenameUncut(filename) ==
    LET RECURSIVE ReplaceUnsafe(_, _)
        ReplaceUnsafe(i, j) ==
            IF i > j THEN ""
            ELSE IF i = j
            THEN IF At(filename, i) \in unsafeFilenameChars THEN "_" ELSE At(filename, i)
            ELSE ReplaceUnsafe(i, (i + j) \div 2) \o ReplaceUnsafe((i + j) \div 2 + 1, j)
    IN Base(ReplaceUnsafe(1, Len(filename)))

\* sanitizeFilename: the unsafe bytes and the ".." sequences become "_", the
\* base name is taken and cut to MaxNameLen bytes
sanitizeFilename(filename) ==
    LET RECURSIVE ReplaceUnsafe(_, _)
        \* unsafeFilenameChars.ReplaceAllString(s, "_") of the bytes i to j of
        \* the name: each byte of the class becomes "_", the two halves joined
        ReplaceUnsafe(i, j) ==
            IF i > j THEN ""
            ELSE IF i = j
            THEN IF At(filename, i) \in unsafeFilenameChars THEN "_" ELSE At(filename, i)
            ELSE ReplaceUnsafe(i, (i + j) \div 2) \o ReplaceUnsafe((i + j) \div 2 + 1, j)
        RECURSIVE ReplaceDotDot(_)
        \* strings.ReplaceAll(s, "..", "_"): leftmost matches, not overlapping
        ReplaceDotDot(t) ==
            LET i == Index(t, "..")
            IN IF i < 0 THEN t
               ELSE SubSeq(t, 1, i) \o "_" \o ReplaceDotDot(SubSeq(t, i + 3, Len(t)))
        safe == Base(ReplaceDotDot(ReplaceUnsafe(1, Len(filename))))
    IN IF Len(safe) > MaxNameLen THEN SubSeq(safe, 1, MaxNameLen) ELSE safe

\* filepath.Ext
Ext(path) ==
    LET RECURSIVE From(_)
        From(i) ==
            IF i = 0 \/ At(path, i) = "/" THEN ""
            ELSE IF At(path, i) = "." THEN SubSeq(path, i, Len(path))
            ELSE From(i - 1)
    IN From(Len(path))

\* filepath.Clean (Unix)
Clean(path) ==
    LET rooted == HasPrefix(path, "/")
        RECURSIVE CleanParts(_, _)
        \* the path elements that are kept: "" and "." are dropped, ".." removes
        \* the element before it, stays when there is none to remove in a
        \* relative path and is dropped at the root
        CleanParts(parts, out) ==
            IF parts = <<>> THEN out
            ELSE LET e == Head(parts)
                     rest == Tail(parts)
                 IN IF e = "" \/ e = "." THEN CleanParts(rest, out)
                    ELSE IF e = ".."
                    THEN IF out # <<>> /\ out[Len(out)] # ".."
                         THEN CleanParts(rest, SubSeq(out, 1, Len(out) - 1))
                         ELSE IF rooted THEN CleanParts(rest, out)
                         ELSE CleanParts(rest, Append(out, e))
                    ELSE CleanParts(rest, Append(out, e))
        RECURSIVE JoinSlash(_)
        JoinSlash(parts) ==
            IF parts = <<>> THEN ""
            ELSE IF Len(parts) = 1 THEN parts[1]
            ELSE parts[1] \o "/" \o JoinSlash(Tail(parts))
        body == JoinSlash(CleanParts(Split(path, "/"), <<>>))
    IN IF rooted THEN "/" \o body
       ELSE IF body = "" THEN "." ELSE body

\* filepath.Join(dir, name)
Join(dir, name) ==
    IF dir = "" /\ name = "" THEN ""
    ELSE IF dir = "" THEN Clean(name)
    ELSE IF name = "" THEN Clean(dir)
    ELSE Clean(dir \o "/" \o name)

----------------------------------------------------------------------------
(* Logging: zap events, each field rendered as text. *)

Event(level, msg, fields) == [level |-> level, msg |-> msg, fields |-> fields]

----------------------------------------------------------------------------
(* Configuration: env.GetEnv. *)

DefaultAnnasBaseURL == "annas-archive.li"

\* env.GetEnv: [err, env, log], the log events it wrote
GetEnv(e) ==
    IF e.secret = "" \/ e.path = ""
    THEN LET err == Err("ANNAS_SECRET_KEY and ANNAS_DOWNLOAD_PATH environment variables must be set")
         IN [err |-> err, env |-> e,
             log |-> <<Event("error", "Environment variables not set",
                             << <<"ANNAS_SECRET_KEY_set", IF e.secret # "" THEN "true" ELSE "false">>,
                                <<"ANNAS_DOWNLOAD_PATH", e.path>>,
                                <<"ANNAS_BASE_URL", e.base>>,
                                <<"error", err.msg>> >>)>>]
    ELSE IF ~HasPrefix(e.path, "/")   \* filepath.IsAbs
    THEN [err |-> Err("ANNAS_DOWNLOAD_PATH must be an absolute path, got: " \o e.path),
          env |-> e, log |-> <<>>]
    ELSE [err |-> NilErr,
          env |-> [secret |-> e.secret, path |-> e.path,
                   base |-> IF e.base = "" THEN DefaultAnnasBaseURL ELSE e.base],
          log |-> <<>>]

----------------------------------------------------------------------------
(* The environment: what the configuration, the network and the disk can be. *)

DownloadDir == "/dl"

Envs ==
    { [secret |-> "k1", path |-> DownloadDir, base |-> ""],
      [secret |-> "k1", path |-> DownloadDir, base |-> "mirror.org"],
      [secret |-> "k1", path |-> DownloadDir, base |-> "bad host"],
      [secret |-> "",   path |-> DownloadDir, base |-> ""],
      [secret |-> "k1", path |-> "dl",        base |-> ""] }

\* the disk before the call: empty, or holding a file of an earlier download
Disks == { <<>>, (DownloadDir \o "/Dune.epub") :> "OLD" }

\* why a request fails in transport
Causes == {"dial tcp: connection refused",
           "context deadline exceeded (Client.Timeout exceeded while awaiting headers)"}

\* http.Client.Get's *url.Error: Get "<url>": <cause>
TransportErr(method, url, cause) == Err(method \o " \"" \o url \o "\": " \o cause)

\* http.Response.Status
StatusLine(code) ==
    CASE code = 200 -> "200 OK"
      [] code = 403 -> "403 Forbidden"
      [] code = 404 -> "404 Not Found"
      [] code = 500 -> "500 Internal Server Error"
      [] OTHER -> Itoa(code)

\* a request as sent: method, URL and User-Agent
Request(method, url, ua) == [method |-> method, url |-> url, ua |-> ua]

GoUserAgent == "Go-http-client/1.1"

BrowserUserAgent ==
    "Mozilla/5.0 (Macintosh; Intel Mac OS X 10_15_7) AppleWebKit/537.36 (KHTML, like Gecko) Chrome/120.0.0.0 Safari/537.36"

RECURSIVE HasControlByte(_)
HasControlByte(s) ==
    s # "" /\ (Head(s) \in {"\t", "\n", "\f", "\r"} \/ HasControlByte(Tail(s)))

\* the URL parses (url.Parse): no control character, and no space in the
\* host, which is what follows "://" up to the next "/"
URLOk(u) ==
    LET i == Index(u, "://")
        rest == IF i < 0 THEN "" ELSE SubSeq(u, i + 4, Len(u))
        j == IndexByte(rest, "/")
        host == IF j < 0 THEN rest ELSE SubSeq(rest, 1, j)
    IN ~HasControlByte(u) /\ ~Contains(host, " ")

\* the error of a URL that does not parse
URLParseErr(u) ==
    IF HasControlByte(u)
    THEN Err("parse \"" \o u \o "\": net/url: invalid control character in URL")
    ELSE Err("parse \"" \o u \o "\": invalid character \" \" in host name")

\* a failed transport
Failed(cause) == [fail |-> TRUE, cause |-> cause]

\* a response of the fast-download API: status, body bytes, whether reading the
\* body fails, and what encoding/json decodes the body to
ApiResponse(status, body, readErr, json) ==
    [fail |-> FALSE, status |-> status, body |-> body, readErr |-> readErr, json |-> json]

\* the outcome of json.Decode into a fastDownloadResponse: the envelope, or an error
Undecodable == [ok |-> FALSE, DownloadURL |-> "", Error |-> ""]

\* the answers to the request of the download reference: a failed transport,
\* an error status with a body around the snippet limit, or status 200 with
\* an envelope
ApiResponses ==
    LET Envelope(url, error) == [ok |-> TRUE, DownloadURL |-> url, Error |-> error]
        Envelopes ==
            { Envelope("", "quota exceeded"), Envelope("", ""),
              Envelope("https://cdn.example/f", ""), Envelope("https://cdn.example/f", "slow"),
              Undecodable }
        ErrorBodyLens == {0, 1, SnippetLimit - 1, SnippetLimit} \cup
                         (SnippetLimit + 1 .. SnippetLimit + MaxBodyOver)
    IN { Failed(c) : c \in Causes }
       \cup { ApiResponse(st, Rep("x", n), re, Undecodable) :
                st \in {403, 500}, n \in ErrorBodyLens, re \in BOOLEAN }
       \cup { ApiResponse(StatusOK, "{...}", FALSE, j) : j \in Envelopes }

\* the download bodies, as the chunks they arrive in: up to MaxChunks chunks
Bodies ==
    LET RECURSIVE ChunkSeqs(_)
        ChunkSeqs(n) ==
            IF n = 0 THEN { <<>> }
            ELSE { Append(cs, c) : cs \in ChunkSeqs(n - 1), c \in {"AB"} }
    IN UNION { ChunkSeqs(n) : n \in 0 .. MaxChunks }

\* a response to a download request: status, the header values, and the body as
\* the chunks it arrives in
FileResponse(status, cd, ct, body, text, readErr) ==
    [fail |-> FALSE, status |-> status, cd |-> cd, ct |-> ct, chunks |-> body,
     body |-> text, readErr |-> readErr]

----------------------------------------------------------------------------
(* The call. *)

\* a returned value: nil, or the value
NilVal == [isNil |-> TRUE]
Val(v) == [isNil |-> FALSE, v |-> v]

Init ==
    /\ env \in Envs
    /\ fs \in Disks
    /\ fs0 = fs
    /\ call = [op |-> "idle"]
    /\ pc = "idle"
    /\ loc = [x |-> 0]
    /\ net = <<>>
    /\ log = <<>>
    /\ ret = [done |-> FALSE, err |-> NilErr, val |-> NilVal]

\* the call returns the value v and the error e
ReturnVal(v, e) ==
    /\ ret' = [done |-> TRUE, err |-> e, val |-> v]
    /\ pc' = "done"

\* the call returns the error e (nil: success)
Return(e) == ReturnVal(NilVal, e)

Exists(f, path) == path \in DOMAIN f

\* os.Create: the file exists and is empty, whatever it held
Create(f, path) == (path :> "") @@ f

\* a Write appends to the file
WriteTo(f, path, bytes) == [f EXCEPT ![path] = @ \o bytes]

\* os.Remove
Remove(f, path) == [q \in DOMAIN f \ {path} |-> f[q]]

\* a cleanup that leaves the partial file in place
DeferredCleanupKeeps(f, path, success, removeOk) == f

\* a cleanup that removes the file whether the call succeeded or not
DeferredCleanupAlways(f, path, success, removeOk) ==
    IF removeOk THEN Remove(f, path) ELSE f

\* the deferred cleanup of a download: the file is closed, and removed unless
\* the call succeeded; removeOk: whether os.Remove succeeds
DeferredCleanup(f, path, success, removeOk) ==
    IF ~success /\ removeOk THEN Remove(f, path) ELSE f

\* what the deferred cleanup logs
DeferredCleanupLog(path, success, removeOk) ==
    IF ~success /\ ~removeOk
    THEN <<Event("warn", "Failed to remove partial file",
                 << <<"path", path>>, <<"error", "remove " \o path \o ": operation not permitted">> >>)>>
    ELSE <<>>

----------------------------------------------------------------------------
(* Book.Download. *)

\* the URL formatted in two steps, the host first: the second step finds the
\* marks fmt left for the missing arguments
AnnasDownloadEndpointTwoSteps(host, hash, key) ==
    "https://" \o host \o "/dyn/api/fast_download.json?md5=%!!(string=" \o hash
        \o ")s(MISSING)&key=%!!(string=" \o key \o ")s(MISSING)"

\* fmt.Sprintf(AnnasDownloadEndpointFormat, host, hash, key)
AnnasDownloadEndpointFormat(host, hash, key) ==
    "https://" \o host \o "/dyn/api/fast_download.json?md5=" \o hash \o "&key=" \o key

Books ==
    { [Hash |-> "abc", Title |-> t, Format |-> f] : t \in {"Dune", "a/b", ""},
                                               f \in {"EPUB", "", "/../../x"} }

SecretKeys == {"k1", "k2"}

\* a read of the whole body, whatever its length
ReadAllUnlimited(body, limit) == body

\* io.ReadAll(io.LimitReader(body, limit))
LimitRead(body, limit) == SubSeq(body, 1, Min(Len(body), limit))

\* the error of a non-200 API answer
ApiStatusError(resp) ==
    IF resp.readErr
    THEN Err("API request failed with status " \o Itoa(resp.status) \o ": "
             \o StatusLine(resp.status))
    ELSE Err("API request failed with status " \o Itoa(resp.status) \o ": "
             \o StatusLine(resp.status)
             \o " (body: " \o LimitRead(resp.body, SnippetLimit) \o ")")

\* an envelope check that drops the message of the API
ApiEnvelopeErrorDropsMessage(apiResp) == Err("API returned empty download URL")

\* the error of a 200 API answer that gives no download URL
ApiEnvelopeError(apiResp) ==
    IF apiResp.Error # ""
    THEN Err("API error: " \o apiResp.Error)
    ELSE Err("API returned empty download URL")

\* the name of the file a book is written to
BookFilename(b) ==
    LET safeTitle == IF sanitizeFilename(b.Title) = "" THEN "untitled"
                     ELSE sanitizeFilename(b.Title)
        format == IF ToLower(b.Format) = "" THEN "bin" ELSE ToLower(b.Format)
    IN safeTitle \o "." \o format

StartBookDownload(b, secretKey, folderPath) ==
    /\ pc = "idle"
    /\ call' = [op |-> "Book.Download", b |-> b, secretKey |-> secretKey,
                folderPath |-> folderPath]
    /\ pc' = "bd_getenv"
    /\ UNCHANGED <<env, fs0, fs, loc, net, log, ret>>

\* env.GetEnv and the API URL
BD_GetEnv ==
    /\ pc = "bd_getenv"
    /\ LET r == GetEnv(env)
       IN /\ log' = log \o r.log
          /\ IF ~r.err.isNil
             THEN /\ Return(Wrap("failed to get environment", r.err))
                  /\ UNCHANGED loc
             ELSE /\ loc' = [apiURL |-> AnnasDownloadEndpointFormat(
                                            r.env.base, call.b.Hash, call.secretKey)]
                  /\ pc' = "bd_api_get"
                  /\ UNCHANGED ret
    /\ UNCHANGED <<env, fs0, fs, call, net>>

\* a first request that is sent again when the transport fails
BD_ApiGetRetries(resp) ==
    /\ pc = "bd_api_get"
    /\ URLOk(loc.apiURL)
    /\ Len(net) < 2
    /\ net' = Append(net, Request("GET", loc.apiURL, GoUserAgent))
    /\ log' = Append(log, Event("info", "Fetching download URL", << <<"hash", call.b.Hash>> >>))
    /\ IF resp.fail
       THEN UNCHANGED <<loc, pc, ret>>
       ELSE /\ loc' = [apiURL |-> loc.apiURL, resp |-> resp]
            /\ pc' = "bd_api_check"
            /\ UNCHANGED ret
    /\ UNCHANGED <<env, fs0, fs, call>>

\* the first request: client.Get(apiURL)
BD_ApiGet(resp) ==
    /\ pc = "bd_api_get"
    /\ log' = Append(log, Event("info", "Fetching download URL", << <<"hash", call.b.Hash>> >>))
    /\ IF ~URLOk(loc.apiURL)
       THEN /\ Return(Wrap("failed to fetch download URL", URLParseErr(loc.apiURL)))
            /\ UNCHANGED <<loc, net>>
       ELSE IF resp.fail
       THEN /\ Return(Wrap("failed to fetch download URL",
                           TransportErr("Get", loc.apiURL, resp.cause)))
            /\ net' = Append(net, Request("GET", loc.apiURL, GoUserAgent))
            /\ UNCHANGED loc
       ELSE /\ loc' = [apiURL |-> loc.apiURL, resp |-> resp]
            /\ net' = Append(net, Request("GET", loc.apiURL, GoUserAgent))
            /\ pc' = "bd_api_check"
            /\ UNCHANGED ret
    /\ UNCHANGED <<env, fs0, fs, call>>

\* a check of the answer that takes the URL of the envelope as it is
BD_ApiCheckAnyURL ==
    /\ pc = "bd_api_check"
    /\ IF loc.resp.status # StatusOK
       THEN Return(ApiStatusError(loc.resp)) /\ UNCHANGED loc
       ELSE IF ~loc.resp.json.ok
       THEN Return(Wrap("failed to decode API response",
                        Err("invalid character 'x' looking for beginning of value")))
            /\ UNCHANGED loc
       ELSE /\ loc' = [apiResp |-> loc.resp.json] @@ loc
            /\ pc' = "bd_file_get"
            /\ UNCHANGED ret
    /\ UNCHANGED <<env, fs0, fs, call, net, log>>

\* the status check, the decoding of the envelope and the check of its URL
BD_ApiCheck ==
    /\ pc = "bd_api_check"
    /\ IF loc.resp.status # StatusOK
       THEN Return(ApiStatusError(loc.resp)) /\ UNCHANGED loc
       ELSE IF ~loc.resp.json.ok
       THEN Return(Wrap("failed to decode API response",
                        Err("invalid character 'x' looking for beginning of value")))
            /\ UNCHANGED loc
       ELSE IF loc.resp.json.DownloadURL = ""
       THEN Return(ApiEnvelopeError(loc.resp.json)) /\ UNCHANGED loc
       ELSE /\ loc' = [apiResp |-> loc.resp.json] @@ loc
            /\ pc' = "bd_file_get"
            /\ UNCHANGED ret
    /\ UNCHANGED <<env, fs0, fs, call, net, log>>

\* the answers to the request for the file of a book
BookFileResponses ==
    { Failed(c) : c \in Causes }
    \cup { FileResponse(404, "", "", <<>>, "gone", FALSE) }
    \cup { FileResponse(StatusOK, "", "", b, "", FALSE) : b \in Bodies }

\* the second request, client.Get(apiResp.DownloadURL), its status check and
\* the file name
BD_FileGet(resp) ==
    /\ pc = "bd_file_get"
    /\ net' = Append(net, Request("GET", loc.apiResp.DownloadURL, GoUserAgent))
    /\ IF resp.fail
       THEN /\ Return(Wrap("failed to download file",
                           TransportErr("Get", loc.apiResp.DownloadURL, resp.cause)))
            /\ log' = Append(log, Event("info", "Downloading file", << <<"url", loc.apiResp.DownloadURL>> >>))
            /\ UNCHANGED loc
       ELSE IF resp.status # StatusOK
       THEN /\ Return(Err("download failed with status " \o Itoa(resp.status) \o ": "
                          \o StatusLine(resp.status)))
            /\ log' = Append(log, Event("info", "Downloading file", << <<"url", loc.apiResp.DownloadURL>> >>))
            /\ loc' = [downloadResp |-> resp] @@ loc
       ELSE LET filePath == Join(call.folderPath, BookFilename(call.b))
            IN /\ loc' = [downloadResp |-> resp, filePath |-> filePath,
                        rest |-> resp.chunks, written |-> 0] @@ loc
               /\ log' = log \o <<Event("info", "Downloading file", << <<"url", loc.apiResp.DownloadURL>> >>),
                                  Event("info", "Creating file", << <<"path", filePath>> >>)>>
               /\ pc' = "bd_create"
               /\ UNCHANGED ret
    /\ UNCHANGED <<env, fs0, fs, call>>

\* os.Create(filePath); ok: whether it succeeds
BD_Create(ok) ==
    /\ pc = "bd_create"
    /\ IF ok
       THEN /\ fs' = Create(fs, loc.filePath)
            /\ pc' = "bd_copy"
            /\ UNCHANGED ret
       ELSE /\ Return(Wrap("failed to create file",
                           Err("open " \o loc.filePath \o ": permission denied")))
            /\ UNCHANGED fs
    /\ UNCHANGED <<env, fs0, call, loc, net, log>>

\* io.Copy moves the next chunk of the body into the file
BD_CopyChunk ==
    /\ pc = "bd_copy"
    /\ loc.rest # <<>>
    /\ fs' = WriteTo(fs, loc.filePath, Head(loc.rest))
    /\ loc' = [loc EXCEPT !.rest = Tail(@), !.written = @ + Len(Head(loc.rest))]
    /\ UNCHANGED <<env, fs0, call, pc, net, log, ret>>

\* io.Copy fails (the body breaks off or the write fails); the deferred cleanup runs
BD_CopyFail(removeOk) ==
    /\ pc = "bd_copy"
    /\ Return(Wrap("failed to write file (wrote " \o Itoa(loc.written) \o " bytes)",
                   Err("unexpected EOF")))
    /\ fs' = DeferredCleanup(fs, loc.filePath, FALSE, removeOk)
    /\ log' = log \o DeferredCleanupLog(loc.filePath, FALSE, removeOk)
    /\ loc' = [copyErr |-> TRUE, syncErr |-> FALSE, success |-> FALSE,
                removeErr |-> ~removeOk] @@ loc
    /\ UNCHANGED <<env, fs0, call, net>>

\* io.Copy reached the end of the body; out.Sync(), then the return and the
\* deferred cleanup
BD_Sync(ok, removeOk) ==
    /\ pc = "bd_copy"
    /\ loc.rest = <<>>
    /\ IF ok
       THEN /\ Return(NilErr)
            /\ fs' = DeferredCleanup(fs, loc.filePath, TRUE, removeOk)
            /\ log' = log \o <<Event("info", "Download completed successfully",
                                     << <<"path", loc.filePath>>,
                                        <<"bytes", Itoa(loc.written)>> >>)>>
                          \o DeferredCleanupLog(loc.filePath, TRUE, removeOk)
            /\ loc' = [copyErr |-> FALSE, syncErr |-> FALSE, success |-> TRUE,
                        removeErr |-> FALSE] @@ loc
       ELSE /\ Return(Wrap("failed to sync file to disk",
                           Err("sync " \o loc.filePath \o ": input/output error")))
            /\ fs' = DeferredCleanup(fs, loc.filePath, FALSE, removeOk)
            /\ log' = log \o DeferredCleanupLog(loc.filePath, FALSE, removeOk)
            /\ loc' = [copyErr |-> FALSE, syncErr |-> TRUE, success |-> FALSE,
                        removeErr |-> ~removeOk] @@ loc
    /\ UNCHANGED <<env, fs0, call, net>>

BookDownload ==
    \/ \E b \in Books, k \in SecretKeys : StartBookDownload(b, k, DownloadDir)
    \/ BD_GetEnv
    \/ \E r \in ApiResponses : BD_ApiGet(r)
    \/ BD_ApiCheck
    \/ \E r \in BookFileResponses : BD_FileGet(r)
    \/ \E ok \in BOOLEAN : BD_Create(ok)
    \/ BD_CopyChunk
    \/ \E removeOk \in BOOLEAN : BD_CopyFail(removeOk)
    \/ \E ok \in BOOLEAN, removeOk \in BOOLEAN : BD_Sync(ok, removeOk)

----------------------------------------------------------------------------
(* DownloadTool: the tool of the MCP server over Book.Download. *)

StartDownloadTool(params) ==
    /\ pc = "idle"
    /\ call' = [op |-> "DownloadTool", params |-> params]
    /\ pc' = "dt_start"
    /\ UNCHANGED <<env, fs0, fs, loc, net, log, ret>>

\* the event of the call, env.GetEnv, and the call of Book.Download on the
\* record made of the arguments, with the key and the path of the configuration
DT_Start ==
    /\ pc = "dt_start"
    /\ LET r == GetEnv(env)
           called == Event("info", "Download command called",
                           << <<"bookHash", call.params.BookHash>>,
                              <<"title", call.params.Title>>,
                              <<"format", call.params.Format>> >>)
       IN IF ~r.err.isNil
          THEN /\ log' = log \o <<called>> \o r.log
                          \o <<Event("error", "Failed to get environment variables",
                                     << <<"error", r.err.msg>> >>)>>
               /\ ret' = [done |-> TRUE, err |-> r.err, val |-> NilVal]
               /\ pc' = "dt_done"
               /\ UNCHANGED call
          ELSE /\ log' = log \o <<called>> \o r.log
               /\ call' = [op |-> "Book.Download", params |-> call.params,
                           b |-> [Hash |-> call.params.BookHash, Title |-> call.params.Title,
                                  Format |-> call.params.Format],
                           secretKey |-> r.env.secret, folderPath |-> r.env.path]
               /\ pc' = "bd_getenv"
               /\ UNCHANGED ret
    /\ UNCHANGED <<env, fs0, fs, loc, net>>

\* Book.Download has returned and the tool runs again: the event of the
\* outcome, and the error or the text of the result
DT_Return ==
    /\ pc = "done"
    /\ call.op = "Book.Download" /\ "params" \in DOMAIN call
    /\ IF ~ret.err.isNil
       THEN /\ log' = Append(log, Event("error", "Download command failed",
                          << <<"bookHash", call.params.BookHash>>,
                             <<"downloadPath", call.folderPath>>,
                             <<"error", ret.err.msg>> >>))
            /\ UNCHANGED ret
       ELSE /\ log' = Append(log, Event("info", "Download command completed successfully",
                          << <<"bookHash", call.params.BookHash>>,
                             <<"downloadPath", call.folderPath>> >>))
            /\ ret' = [ret EXCEPT !.val = Val("Book downloaded successfully to path: "
                                                  \o call.folderPath)]
    /\ call' = [op |-> "DownloadTool", params |-> call.params]
    /\ pc' = "dt_done"
    /\ UNCHANGED <<env, fs0, fs, loc, net>>

DownloadTool ==
    \/ \E b \in Books :
           StartDownloadTool([BookHash |-> b.Hash, Title |-> b.Title, Format |-> b.Format])
    \/ DT_Start
    \/ DT_Return

----------------------------------------------------------------------------
(* Paper.Download. *)

\* the records Paper.Download is called on
Papers ==
    { [DOI |-> "10.1/x", Title |-> t, DownloadURL |-> u] :
        t \in {"", "On Sand"},
        u \in {"", "/scidb?doi=10.1/x", "https://cdn.example/p", "/scidb?doi=\n"} }

\* mime.ParseMediaType of a Content-Disposition value: whether it parses and
\* the filename parameter it carries
ParseMediaType(v) ==
    CASE v = "attachment; filename=\"p.epub\"" ->
             [ok |-> TRUE, hasFilename |-> TRUE, filename |-> "p.epub"]
      [] v = "attachment; filename=paper" ->
             [ok |-> TRUE, hasFilename |-> TRUE, filename |-> "paper"]
      [] v = "attachment" ->
             [ok |-> TRUE, hasFilename |-> FALSE, filename |-> ""]
      [] OTHER ->
             [ok |-> FALSE, hasFilename |-> FALSE, filename |-> ""]

\* mime.ExtensionsByType of a Content-Type value (the built-in table), sorted
ExtensionsByType(v) ==
    CASE v = "application/pdf" -> <<".pdf">>
      [] v = "text/html; charset=utf-8" -> <<".htm", ".html">>
      [] OTHER -> <<>>

\* the file extension inferred from the headers of the response
InferExt(cd, ct) ==
    IF cd # ""
    THEN LET m == ParseMediaType(cd)
         IN IF m.ok /\ m.hasFilename /\ Ext(m.filename) # ""
            THEN Ext(m.filename) ELSE ".pdf"
    ELSE IF ct # "" /\ ExtensionsByType(ct) # <<>>
    THEN ExtensionsByType(ct)[1]
    ELSE ".pdf"

\* the name of the file a paper is written to
PaperFilename(p, ext) ==
    LET name == IF p.Title = "" THEN p.DOI ELSE p.Title
        safeName == IF sanitizeFilename(name) = "" THEN "paper" ELSE sanitizeFilename(name)
    IN safeName \o ext

\* the error of a non-200 answer to the download request
DownloadStatusError(resp) ==
    IF resp.readErr
    THEN Err("download failed with status " \o Itoa(resp.status) \o ": "
             \o StatusLine(resp.status))
    ELSE Err("download failed with status " \o Itoa(resp.status) \o ": "
             \o StatusLine(resp.status)
             \o " (body: " \o LimitRead(resp.body, SnippetLimit) \o ")")

PaperFileResponses ==
    LET ContentDispositions ==
            {"", "attachment; filename=\"p.epub\"", "attachment; filename=paper",
             "attachment", ";"}
        ContentTypes ==
            {"", "application/pdf", "text/html; charset=utf-8", "application/x-unknown"}
    IN { Failed(c) : c \in Causes }
       \cup { FileResponse(st, "", "", <<>>, Rep("y", n), re) :
                st \in {404}, n \in {0, SnippetLimit + MaxBodyOver}, re \in BOOLEAN }
       \cup { FileResponse(StatusOK, cd, ct, b, "", FALSE) :
                cd \in ContentDispositions, ct \in ContentTypes, b \in Bodies }

StartPaperDownload(p, folderPath) ==
    /\ pc = "idle"
    /\ call' = [op |-> "Paper.Download", p |-> p, folderPath |-> folderPath]
    /\ pc' = "pd_start"
    /\ UNCHANGED <<env, fs0, fs, loc, net, log, ret>>

\* a start that does not check the reference
PD_StartUnchecked ==
    /\ pc = "pd_start"
    /\ LET r == GetEnv(env)
           downloadURL == IF HasPrefix(call.p.DownloadURL, "http")
                          THEN call.p.DownloadURL
                          ELSE "https://" \o r.env.base \o call.p.DownloadURL
       IN IF ~r.err.isNil
          THEN /\ Return(Wrap("failed to get environment", r.err))
               /\ log' = log \o r.log
               /\ UNCHANGED loc
          ELSE IF ~URLOk(downloadURL)
          THEN /\ Return(Wrap("failed to create request", URLParseErr(downloadURL)))
               /\ log' = Append(log, Event("info", "Downloading paper via SciDB",
                                           << <<"url", downloadURL>> >>))
               /\ UNCHANGED loc
          ELSE /\ loc' = [downloadURL |-> downloadURL]
               /\ log' = Append(log, Event("info", "Downloading paper via SciDB",
                                           << <<"url", downloadURL>> >>))
               /\ pc' = "pd_get"
               /\ UNCHANGED ret
    /\ UNCHANGED <<env, fs0, fs, call, net>>

\* the check of the reference, env.GetEnv, the URL and http.NewRequest
PD_Start ==
    /\ pc = "pd_start"
    /\ IF call.p.DownloadURL = ""
       THEN /\ Return(Err("no download URL available for this paper"))
            /\ UNCHANGED <<loc, log>>
       ELSE LET r == GetEnv(env)
                downloadURL == IF HasPrefix(call.p.DownloadURL, "http")
                               THEN call.p.DownloadURL
                               ELSE "https://" \o r.env.base \o call.p.DownloadURL
            IN IF ~r.err.isNil
               THEN /\ Return(Wrap("failed to get environment", r.err))
                    /\ log' = log \o r.log
                    /\ UNCHANGED loc
               ELSE IF ~URLOk(downloadURL)
               THEN /\ Return(Wrap("failed to create request", URLParseErr(downloadURL)))
                    /\ log' = Append(log, Event("info", "Downloading paper via SciDB",
                                                << <<"url", downloadURL>> >>))
                    /\ UNCHANGED loc
               ELSE /\ loc' = [downloadURL |-> downloadURL]
                    /\ log' = Append(log, Event("info", "Downloading paper via SciDB",
                                                << <<"url", downloadURL>> >>))
                    /\ pc' = "pd_get"
                    /\ UNCHANGED ret
    /\ UNCHANGED <<env, fs0, fs, call, net>>

\* client.Do(req), the status check, the extension and the file name
PD_Get(resp) ==
    /\ pc = "pd_get"
    /\ net' = Append(net, Request("GET", loc.downloadURL, BrowserUserAgent))
    /\ IF resp.fail
       THEN /\ Return(Wrap("failed to download paper",
                           TransportErr("Get", loc.downloadURL, resp.cause)))
            /\ UNCHANGED <<loc, log>>
       ELSE IF resp.status # StatusOK
       THEN /\ Return(DownloadStatusError(resp))
            /\ loc' = [resp |-> resp] @@ loc
            /\ UNCHANGED log
       ELSE LET ext == InferExt(resp.cd, resp.ct)
                filePath == Join(call.folderPath, PaperFilename(call.p, ext))
            IN /\ loc' = [resp |-> resp, filePath |-> filePath,
                        rest |-> resp.chunks, written |-> 0] @@ loc
               /\ log' = Append(log, Event("info", "Creating file", << <<"path", filePath>> >>))
               /\ pc' = "pd_create"
               /\ UNCHANGED ret
    /\ UNCHANGED <<env, fs0, fs, call>>

\* os.Create(filePath); ok: whether it succeeds
PD_Create(ok) ==
    /\ pc = "pd_create"
    /\ IF ok
       THEN /\ fs' = Create(fs, loc.filePath)
            /\ pc' = "pd_copy"
            /\ UNCHANGED ret
       ELSE /\ Return(Wrap("failed to create file",
                           Err("open " \o loc.filePath \o ": permission denied")))
            /\ UNCHANGED fs
    /\ UNCHANGED <<env, fs0, call, loc, net, log>>

\* io.Copy moves the next chunk of the body into the file
PD_CopyChunk ==
    /\ pc = "pd_copy"
    /\ loc.rest # <<>>
    /\ fs' = WriteTo(fs, loc.filePath, Head(loc.rest))
    /\ loc' = [loc EXCEPT !.rest = Tail(@), !.written = @ + Len(Head(loc.rest))]
    /\ UNCHANGED <<env, fs0, call, pc, net, log, ret>>

\* io.Copy fails; the deferred cleanup runs
PD_CopyFail(removeOk) ==
    /\ pc = "pd_copy"
    /\ Return(Wrap("failed to write file (wrote " \o Itoa(loc.written) \o " bytes)",
                   Err("unexpected EOF")))
    /\ fs' = DeferredCleanup(fs, loc.filePath, FALSE, removeOk)
    /\ log' = log \o DeferredCleanupLog(loc.filePath, FALSE, removeOk)
    /\ loc' = [copyErr |-> TRUE, syncErr |-> FALSE, success |-> FALSE,
                removeErr |-> ~removeOk] @@ loc
    /\ UNCHANGED <<env, fs0, call, net>>

\* io.Copy reached the end of the body; out.Sync(), then the return and the
\* deferred cleanup
PD_Sync(ok, removeOk) ==
    /\ pc = "pd_copy"
    /\ loc.rest = <<>>
    /\ IF ok
       THEN /\ Return(NilErr)
            /\ fs' = DeferredCleanup(fs, loc.filePath, TRUE, removeOk)
            /\ log' = log \o <<Event("info", "Paper download completed successfully",
                                     << <<"path", loc.filePath>>,
                                        <<"bytes", Itoa(loc.written)>> >>)>>
                          \o DeferredCleanupLog(loc.filePath, TRUE, removeOk)
            /\ loc' = [copyErr |-> FALSE, syncErr |-> FALSE, success |-> TRUE,
                        removeErr |-> FALSE] @@ loc
       ELSE /\ Return(Wrap("failed to sync file to disk",
                           Err("sync " \o loc.filePath \o ": input/output error")))
            /\ fs' = DeferredCleanup(fs, loc.filePath, FALSE, removeOk)
            /\ log' = log \o DeferredCleanupLog(loc.filePath, FALSE, removeOk)
            /\ loc' = [copyErr |-> FALSE, syncErr |-> TRUE, success |-> FALSE,
                        removeErr |-> ~removeOk] @@ loc
    /\ UNCHANGED <<env, fs0, call, net>>

PaperDownload ==
    \/ \E p \in Papers : StartPaperDownload(p, DownloadDir)
    \/ PD_Start
    \/ \E r \in PaperFileResponses : PD_Get(r)
    \/ \E ok \in BOOLEAN : PD_Create(ok)
    \/ PD_CopyChunk
    \/ \E removeOk \in BOOLEAN : PD_CopyFail(removeOk)
    \/ \E ok \in BOOLEAN, removeOk \in BOOLEAN : PD_Sync(ok, removeOk)

----------------------------------------------------------------------------
(* LookupDOI: two collectors, each visiting one page synchronously. *)

AnnasSciDBEndpointFormat(host, doi) == "https://" \o host \o "/scidb/" \o doi

Md5Prefix == "/md5/"

DOIs == {"10.1/x", "10.2/y"}

\* the href values of the anchors of a fetched page
AnchorHrefs == {"/md5/", "/md5/h1", "/md5/h2", "/search?q=x"}

RECURSIVE SeqsUpTo(_, _)
\* the sequences over S of length at most n
SeqsUpTo(S, n) ==
    IF n = 0 THEN { <<>> }
    ELSE SeqsUpTo(S, n - 1) \cup
         { Append(q, x) : q \in { r \in SeqsUpTo(S, n - 1) : Len(r) = n - 1 }, x \in S }

\* a page as fetched: status 200 and the elements the callbacks are matched on
Page(elems) == [fail |-> FALSE, status |-> StatusOK, elems |-> elems]

\* an answer with an error status: colly fails the visit with the status text
ErrorStatus(code) == [fail |-> FALSE, status |-> code, elems |-> <<>>]

\* the answers to the phase-1 request: the anchors of the page, in document order
SearchPages ==
    { Failed(c) : c \in Causes } \cup { ErrorStatus(404) }
    \cup { Page(a) : a \in SeqsUpTo(AnchorHrefs, MaxAnchors) }

\* the detail page of a paper: the texts of its title elements, the content of
\* its description meta tags, its /search links (text, and whether a
\* user-edit icon is inside) and its gray text blocks
DetailPages ==
    LET DetailPage(titles, descs, links, divs) ==
            [fail |-> FALSE, status |-> StatusOK,
             elems |->
                 [h \in 1 .. Len(titles) |-> [sel |-> "title", text |-> titles[h], icon |-> FALSE]]
                 \o [h \in 1 .. Len(descs) |-> [sel |-> "meta", text |-> descs[h], icon |-> FALSE]]
                 \o [h \in 1 .. Len(links) |->
                        [sel |-> "search", text |-> links[h][1], icon |-> links[h][2]]]
                 \o [h \in 1 .. Len(divs) |-> [sel |-> "gray", text |-> divs[h], icon |-> FALSE]]]
    IN { Failed(c) : c \in Causes } \cup { ErrorStatus(403) }
       \cup { DetailPage(<<"On Sand - Anna's Archive">>,
                         <<"A. Author\n\nPub (1234)\n\nJ. Sand, #1, 2015">>,
                         << <<"Home", FALSE>>, <<" A. Author ", TRUE>>, <<"B. Other", TRUE>> >>,
                         <<"misc", " 1.2MB ">>),
              DetailPage(<<" - Anna's Archive">>, <<"A. Author\n\nPub">>, <<>>, <<"12KB">>),
              DetailPage(<<>>, <<" plain ">>, <<>>, <<>>) }

NewPaper(doi) ==
    [DOI |-> doi, Title |-> "", Authors |-> "", Journal |-> "", Size |-> "",
     Hash |-> "", DownloadURL |-> "", SciHubURL |-> "", PageURL |-> ""]

\* the elements a[href^='/md5/'] selects, in document order
RECURSIVE SelectMd5(_)
SelectMd5(hrefs) ==
    IF hrefs = <<>> THEN <<>>
    ELSE (IF HasPrefix(Head(hrefs), Md5Prefix) THEN <<Head(hrefs)>> ELSE <<>>)
             \o SelectMd5(Tail(hrefs))

\* a callback that takes the href for the hash, the prefix not removed
OnSearchAnchorUntrimmed(paper, href) ==
    IF paper.Hash # "" THEN paper
    ELSE IF href # "" THEN [paper EXCEPT !.Hash = href]
    ELSE paper

\* a callback that does not look whether the hash is set: the last anchor wins
OnSearchAnchorLastWins(paper, href) ==
    IF TrimPrefix(href, Md5Prefix) # ""
    THEN [paper EXCEPT !.Hash = TrimPrefix(href, Md5Prefix)]
    ELSE paper

\* the callback of the search collector on a[href^='/md5/']
OnSearchAnchor(paper, href) ==
    IF paper.Hash # "" THEN paper
    ELSE IF TrimPrefix(href, Md5Prefix) # ""
    THEN [paper EXCEPT !.Hash = TrimPrefix(href, Md5Prefix)]
    ELSE paper

\* the callback of the detail collector on title
OnTitle(paper, e) ==
    IF Index(e.text, " - Anna") > 0
    THEN [paper EXCEPT !.Title = TrimSpace(SubSeq(e.text, 1, Index(e.text, " - Anna")))]
    ELSE paper

\* the callback of the detail collector on meta[name=description]
OnDescription(paper, e) ==
    LET parts == Split(e.text, "\n\n")
    IN IF Len(parts) >= 3 THEN [paper EXCEPT !.Journal = TrimSpace(parts[3])]
       ELSE IF Len(parts) >= 2 THEN [paper EXCEPT !.Journal = TrimSpace(parts[2])]
       ELSE [paper EXCEPT !.Journal = TrimSpace(e.text)]

\* the callback of the detail collector on a[href^='/search']
OnSearchLink(paper, e) ==
    IF paper.Authors # "" THEN paper
    ELSE IF e.icon THEN [paper EXCEPT !.Authors = TrimSpace(e.text)]
    ELSE paper

\* the callback of the detail collector on div.text-gray-500
OnGrayDiv(paper, e) ==
    IF Contains(e.text, "MB") \/ Contains(e.text, "KB")
    THEN [paper EXCEPT !.Size = TrimSpace(e.text)]
    ELSE paper

\* the error colly's Visit returns for an answer that is no page
VisitErr(url, out) ==
    LET StatusText(code) ==   \* http.StatusText
            CASE code = 403 -> "Forbidden"
              [] code = 404 -> "Not Found"
              [] code = 500 -> "Internal Server Error"
              [] OTHER -> "OK"
    IN IF out.fail THEN TransportErr("Get", url, out.cause)
       ELSE Err(StatusText(out.status))

\* the status code the OnError callbacks log
ErrStatusCode(out) == IF out.fail THEN 0 ELSE out.status

StartLookupDOI(doi) ==
    /\ pc = "idle"
    /\ call' = [op |-> "LookupDOI", doi |-> doi]
    /\ pc' = "ld_start"
    /\ UNCHANGED <<env, fs0, fs, loc, net, log, ret>>

\* env.GetEnv, the new record and its page URL
LD_Start ==
    /\ pc = "ld_start"
    /\ LET r == GetEnv(env)
           scidbURL == AnnasSciDBEndpointFormat(r.env.base, call.doi)
       IN IF ~r.err.isNil
          THEN /\ Return(r.err)
               /\ log' = log \o r.log
               /\ UNCHANGED loc
          ELSE /\ loc' = [env |-> r.env, scidbURL |-> scidbURL, todo |-> <<>>,
                          paper |-> [NewPaper(call.doi) EXCEPT !.PageURL = scidbURL]]
               /\ log' = Append(log, Event("info", "Looking up DOI", << <<"url", scidbURL>> >>))
               /\ pc' = "ld_search"
               /\ UNCHANGED ret
    /\ UNCHANGED <<env, fs0, fs, call, net>>

\* phase 1 with the error of the visit dropped, as in phase 2: a failure is
\* logged and the call goes on with the page it has
LD_SearchVisitNotFatal(out) ==
    /\ pc = "ld_search"
    /\ URLOk(loc.scidbURL)
    /\ net' = Append(net, Request("GET", loc.scidbURL, BrowserUserAgent))
    /\ IF out.fail \/ out.status # StatusOK
       THEN /\ log' = Append(log, Event("error", "SciDB search failed",
                          << <<"doi", call.doi>>,
                             <<"statusCode", Itoa(ErrStatusCode(out))>>,
                             <<"error", VisitErr(loc.scidbURL, out).msg>> >>))
            /\ loc' = [searchPage |-> <<>>] @@ loc
       ELSE /\ loc' = [searchPage |-> out.elems]
                       @@ [loc EXCEPT !.todo = SelectMd5(out.elems)]
            /\ UNCHANGED log
    /\ pc' = "ld_search_html"
    /\ UNCHANGED <<env, fs0, fs, call, ret>>

\* phase 1: searchCollector.Visit(scidbURL) up to the parsed page, or its failure
LD_SearchVisit(out) ==
    /\ pc = "ld_search"
    /\ IF ~URLOk(loc.scidbURL)
       THEN /\ Return(Wrap("failed to lookup DOI", URLParseErr(loc.scidbURL)))
            /\ UNCHANGED <<loc, net, log>>
       ELSE /\ net' = Append(net, Request("GET", loc.scidbURL, BrowserUserAgent))
            /\ IF out.fail \/ out.status # StatusOK
               THEN /\ Return(Wrap("failed to lookup DOI", VisitErr(loc.scidbURL, out)))
                    /\ log' = Append(log, Event("error", "SciDB search failed",
                                  << <<"doi", call.doi>>,
                                     <<"statusCode", Itoa(ErrStatusCode(out))>>,
                                     <<"error", VisitErr(loc.scidbURL, out).msg>> >>))
                    /\ UNCHANGED loc
               ELSE /\ loc' = [searchPage |-> out.elems]
                               @@ [loc EXCEPT !.todo = SelectMd5(out.elems)]
                    /\ pc' = "ld_search_html"
                    /\ UNCHANGED <<ret, log>>
    /\ UNCHANGED <<env, fs0, fs, call>>

\* phase 1: the callback runs on the next matched anchor
LD_OnSearchAnchor ==
    /\ pc = "ld_search_html"
    /\ loc.todo # <<>>
    /\ loc' = [loc EXCEPT !.paper = OnSearchAnchor(loc.paper, Head(loc.todo)),
                          !.todo = Tail(loc.todo)]
    /\ UNCHANGED <<env, fs0, fs, call, pc, net, log, ret>>

\* phase 1 without the check of the hash
LD_SearchDoneUnchecked ==
    /\ pc = "ld_search_html"
    /\ loc.todo = <<>>
    /\ loc' = [md5URL |-> "https://" \o loc.env.base \o "/md5/" \o loc.paper.Hash] @@ loc
    /\ pc' = "ld_detail"
    /\ UNCHANGED <<env, fs0, fs, call, net, log, ret>>

\* the visit of phase 1 returned nil: the check of the hash, and the detail URL
LD_SearchDone ==
    /\ pc = "ld_search_html"
    /\ loc.todo = <<>>
    /\ IF loc.paper.Hash = ""
       THEN /\ Return(Err("no paper found for DOI: " \o call.doi))
            /\ UNCHANGED <<loc, log>>
       ELSE LET md5URL == "https://" \o loc.env.base \o "/md5/" \o loc.paper.Hash
            IN /\ loc' = [md5URL |-> md5URL] @@ loc
               /\ log' = Append(log, Event("info", "Fetching paper details", << <<"url", md5URL>> >>))
               /\ pc' = "ld_detail"
               /\ UNCHANGED ret
    /\ UNCHANGED <<env, fs0, fs, call, net>>

\* the download reference and the successful return
LD_Return(paper) ==
    ReturnVal(Val([paper EXCEPT !.DownloadURL = "/scidb?doi=" \o call.doi]), NilErr)

\* phase 2 with a failed visit made fatal
LD_DetailVisitFatal(out) ==
    /\ pc = "ld_detail"
    /\ net' = Append(net, Request("GET", loc.md5URL, BrowserUserAgent))
    /\ IF out.fail \/ out.status # StatusOK
       THEN /\ loc' = [detailErr |-> TRUE] @@ loc
            /\ Return(Wrap("failed to fetch paper details", VisitErr(loc.md5URL, out)))
       ELSE /\ loc' = [detailErr |-> FALSE, detailPage |-> out.elems]
                       @@ [loc EXCEPT !.todo = out.elems]
            /\ pc' = "ld_detail_html"
            /\ UNCHANGED ret
    /\ UNCHANGED <<env, fs0, fs, call, log>>

\* phase 2: detailCollector.Visit(md5URL) up to the parsed page; a failure is
\* logged and the record is returned as it is
LD_DetailVisit(out) ==
    /\ pc = "ld_detail"
    /\ net' = Append(net, Request("GET", loc.md5URL, BrowserUserAgent))
    /\ IF out.fail \/ out.status # StatusOK
       THEN /\ log' = log \o
                 <<Event("warn", "Failed to fetch paper details",
                         << <<"hash", loc.paper.Hash>>,
                            <<"error", VisitErr(loc.md5URL, out).msg>> >>),
                   Event("warn", "Failed to visit paper detail page",
                         << <<"error", VisitErr(loc.md5URL, out).msg>> >>)>>
            /\ loc' = [detailErr |-> TRUE] @@ loc
            /\ LD_Return(loc.paper)
       ELSE /\ loc' = [detailErr |-> FALSE, detailPage |-> out.elems]
                       @@ [loc EXCEPT !.todo = out.elems]
            /\ pc' = "ld_detail_html"
            /\ UNCHANGED <<ret, log>>
    /\ UNCHANGED <<env, fs0, fs, call>>

\* phase 2: the callback registered for the next matched element runs
LD_OnDetailElement ==
    /\ pc = "ld_detail_html"
    /\ loc.todo # <<>>
    /\ LET e == Head(loc.todo)
       IN loc' = [loc EXCEPT
                    !.paper = CASE e.sel = "title" -> OnTitle(@, e)
                                [] e.sel = "meta" -> OnDescription(@, e)
                                [] e.sel = "search" -> OnSearchLink(@, e)
                                [] OTHER -> OnGrayDiv(@, e),
                    !.todo = Tail(loc.todo)]
    /\ UNCHANGED <<env, fs0, fs, call, pc, net, log, ret>>

\* the visit of phase 2 returned nil
LD_DetailDone ==
    /\ pc = "ld_detail_html"
    /\ loc.todo = <<>>
    /\ LD_Return(loc.paper)
    /\ UNCHANGED <<env, fs0, fs, call, loc, net, log>>

LookupDOI ==
    \/ \E doi \in DOIs : StartLookupDOI(doi)
    \/ LD_Start
    \/ \E out \in SearchPages : LD_SearchVisit(out)
    \/ LD_OnSearchAnchor
    \/ LD_SearchDone
    \/ \E out \in DetailPages : LD_DetailVisit(out)
    \/ LD_OnDetailElement
    \/ LD_DetailDone

----------------------------------------------------------------------------
(* FindBook: the search of books. *)

AnnasSearchEndpointFormat(host, q, content) ==
    "https://" \o host \o "/search?q=" \o q \o "&content=" \o content

RECURSIVE QueryEscape(_)
\* url.QueryEscape: letters, digits, "-", "_", "." and "~" stay, a space
\* becomes "+", every other byte "%" and its code in two hexadecimal digits
QueryEscape(s) ==
    LET \* the printable bytes of ASCII from the space (32) to the underscore
        \* (95), and from "a" (97) to the tilde (126)
        ASCIILow == " !\"#$%&'()*+,-./0123456789:;<=>?@ABCDEFGHIJKLMNOPQRSTUVWXYZ[\\]^_"
        ASCIIHigh == "abcdefghijklmnopqrstuvwxyz{|}~"
        ByteCode(c) ==
            CASE c = "\t" -> 9
              [] c = "\n" -> 10
              [] c = "\f" -> 12
              [] c = "\r" -> 13
              [] IndexByte(ASCIILow, c) >= 0 -> 32 + IndexByte(ASCIILow, c)
              [] OTHER -> 97 + IndexByte(ASCIIHigh, c)
        HexDigits == "0123456789ABCDEF"
        Unreserved == WordBytes \cup {"-", ".", "~"}
        c == Head(s)
        n == ByteCode(c)
    IN IF s = "" THEN ""
       ELSE (IF c \in Unreserved THEN c
             ELSE IF c = " " THEN "+"
             ELSE "%" \o At(HexDigits, (n \div 16) + 1) \o At(HexDigits, (n % 16) + 1))
            \o QueryEscape(Tail(s))

\* the class of the cover link of a search result
CoverLinkClass == "custom-a block mr-2 sm:mr-4 hover:opacity-80"

\* the anchors search pages are made of, each with what the extraction reads
\* around it: its href and class, whether it has a parent and the parent an
\* info container (div.max-w-full), and the texts of the container's title
\* link, author link, publisher link and metadata block; an anchor of a
\* parsed document always has a parent
Anchors ==
    LET Anchor(href, class, hasInfo, title, authors, publisher, meta) ==
            [href |-> href, class |-> class, hasParent |-> TRUE, hasInfo |-> hasInfo,
             title |-> title, authors |-> authors, publisher |-> publisher, meta |-> meta]
    IN { Anchor("/md5/h1", CoverLinkClass, TRUE, " Dune ", " Frank Herbert ", "Ace",
                "¤ English [en] · EPUB · 0.7MB · 2015"),
         Anchor("/md5/h2", CoverLinkClass, TRUE, "Emma", "", "", "PDF"),
         Anchor("/md5/h1", "line-clamp-[3] font-semibold", TRUE, " Dune ", "", "", ""),
         Anchor("/md5/h3", CoverLinkClass, FALSE, "", "", "", ""),
         Anchor("/md5/h4", CoverLinkClass, TRUE, " \n ", "X", "", "PDF · 1MB · en"),
         Anchor("/md5/", CoverLinkClass, TRUE, "No hash", "", "", ""),
         Anchor("/search?q=dune", CoverLinkClass, TRUE, "Dune", "", "", ""),
         Anchor("/md5/h5", CoverLinkClass \o " js-x", TRUE, "Emma", "", "", "") }

\* the answers to the search request
BookPages ==
    { Failed(c) : c \in Causes } \cup { ErrorStatus(403) }
    \cup { Page(a) : a \in SeqsUpTo(Anchors, MaxAnchors) }

Queries == {"dune", "a b&c"}

Contents == {"", "journal"}

RECURSIVE SelectMd5Anchors(_)
\* the elements a[href^='/md5/'] selects, in document order
SelectMd5Anchors(elems) ==
    IF elems = <<>> THEN <<>>
    ELSE (IF HasPrefix(Head(elems).href, Md5Prefix) THEN <<Head(elems)>> ELSE <<>>)
             \o SelectMd5Anchors(Tail(elems))

\* a callback that keeps every matched anchor, whatever its class
OnBookAnchorAnyClass(bookList, e) == Append(bookList, e)

\* a callback that looks for the class of the cover link among the classes
OnBookAnchorClassPrefix(bookList, e) ==
    IF HasPrefix(e.class, CoverLinkClass) THEN Append(bookList, e) ELSE bookList

\* the callback of the collector on a[href^='/md5/']
OnBookAnchor(bookList, e) ==
    IF e.class = CoverLinkClass THEN Append(bookList, e) ELSE bookList

Skip(msg, fields) == [skip |-> TRUE, warn |-> Event("warn", msg, fields)]

\* the record of an element
BookOf(e, host) ==
    LET m == extractMetaInformation(e.meta)
        \* Request.AbsoluteURL of a link that is an absolute path
        AbsoluteURL(h, link) == "https://" \o h \o link
    IN [Language |-> m.language, Format |-> m.format, Size |-> m.size,
        Title |-> TrimSpace(e.title), Publisher |-> TrimSpace(e.publisher),
        Authors |-> TrimSpace(e.authors), URL |-> AbsoluteURL(host, e.href),
        Hash |-> TrimPrefix(e.href, Md5Prefix)]

\* an extraction that does not look at the title
ExtractBookAnyTitle(e, host) ==
    IF ~e.hasParent THEN Skip("Skipping book: no parent element found", <<>>)
    ELSE IF ~e.hasInfo THEN Skip("Skipping book: book info container not found", <<>>)
    ELSE IF TrimPrefix(e.href, Md5Prefix) = ""
    THEN Skip("Skipping book: no hash found", << <<"title", TrimSpace(e.title)>> >>)
    ELSE [skip |-> FALSE, book |-> BookOf(e, host)]

\* the body of the extraction loop on one element: the skip and its warning,
\* or the record
ExtractBook(e, host) ==
    IF ~e.hasParent THEN Skip("Skipping book: no parent element found", <<>>)
    ELSE IF ~e.hasInfo THEN Skip("Skipping book: book info container not found", <<>>)
    ELSE IF TrimSpace(e.title) = "" THEN Skip("Skipping book: title is empty", <<>>)
    ELSE IF e.href = ""
    THEN Skip("Skipping book: no link found", << <<"title", TrimSpace(e.title)>> >>)
    ELSE IF TrimPrefix(e.href, Md5Prefix) = ""
    THEN Skip("Skipping book: no hash found", << <<"title", TrimSpace(e.title)>> >>)
    ELSE [skip |-> FALSE, book |-> BookOf(e, host)]

StartFindBook(query, content) ==
    /\ pc = "idle"
    /\ call' = [op |-> "FindBook", query |-> query, content |-> content]
    /\ pc' = "fb_start"
    /\ UNCHANGED <<env, fs0, fs, loc, net, log, ret>>

\* the default content type, the collector, env.GetEnv and the search URL
FB_Start ==
    /\ pc = "fb_start"
    /\ LET content == IF call.content = "" THEN "book_any" ELSE call.content
           r == GetEnv(env)
       IN IF ~r.err.isNil
          THEN /\ Return(r.err)
               /\ log' = log \o r.log
               /\ UNCHANGED loc
          ELSE /\ loc' = [env |-> r.env, content |-> content,
                          fullURL |-> AnnasSearchEndpointFormat(r.env.base,
                                          QueryEscape(call.query), QueryEscape(content)),
                          bookList |-> <<>>, todo |-> <<>>, rest |-> <<>>,
                          bookListParsed |-> <<>>]
               /\ log' = log \o r.log
               /\ pc' = "fb_visit"
               /\ UNCHANGED ret
    /\ UNCHANGED <<env, fs0, fs, call, net>>

\* c.Visit(fullURL) of the asynchronous collector: the URL is parsed and the
\* fetch is handed to a goroutine; only a URL that does not parse is an error
FB_Visit ==
    /\ pc = "fb_visit"
    /\ IF ~URLOk(loc.fullURL)
       THEN /\ log' = Append(log, Event("error", "Failed to visit search URL",
                          << <<"url", loc.fullURL>>,
                             <<"error", URLParseErr(loc.fullURL).msg>> >>))
            /\ Return(Wrap("failed to visit search URL", URLParseErr(loc.fullURL)))
       ELSE /\ pc' = "fb_fetch"
            /\ UNCHANGED <<log, ret>>
    /\ UNCHANGED <<env, fs0, fs, call, loc, net>>

\* the fetch goroutine, while FindBook waits in c.Wait(): the OnRequest
\* callback, the request, and on a failure the OnError callback
FB_Fetch(out) ==
    /\ pc = "fb_fetch"
    /\ net' = Append(net, Request("GET", loc.fullURL, BrowserUserAgent))
    /\ IF out.fail \/ out.status # StatusOK
       THEN /\ log' = log \o << Event("info", "Visiting URL", << <<"url", loc.fullURL>> >>),
                                Event("error", "Search request failed",
                                      << <<"statusCode", Itoa(ErrStatusCode(out))>>,
                                         <<"error", VisitErr(loc.fullURL, out).msg>> >>) >>
            /\ loc' = [page |-> out] @@ loc
       ELSE /\ log' = Append(log, Event("info", "Visiting URL", << <<"url", loc.fullURL>> >>))
            /\ loc' = [page |-> out] @@ [loc EXCEPT !.todo = SelectMd5Anchors(out.elems)]
    /\ pc' = "fb_html"
    /\ UNCHANGED <<env, fs0, fs, call, ret>>

\* the fetch goroutine: the OnHTML callback runs on the next matched anchor
FB_OnAnchor ==
    /\ pc = "fb_html"
    /\ loc.todo # <<>>
    /\ loc' = [loc EXCEPT !.bookList = OnBookAnchor(loc.bookList, Head(loc.todo)),
                          !.todo = Tail(loc.todo)]
    /\ UNCHANGED <<env, fs0, fs, call, pc, net, log, ret>>

\* a wait that returns while the fetch goroutine still has callbacks to run
FB_WaitEarly ==
    /\ pc = "fb_html"
    /\ loc' = [loc EXCEPT !.rest = loc.bookList]
    /\ pc' = "fb_extract"
    /\ UNCHANGED <<env, fs0, fs, call, net, log, ret>>

\* the fetch goroutine is done and c.Wait() returns
FB_Wait ==
    /\ pc = "fb_html"
    /\ loc.todo = <<>>
    /\ loc' = [loc EXCEPT !.rest = loc.bookList]
    /\ pc' = "fb_extract"
    /\ UNCHANGED <<env, fs0, fs, call, net, log, ret>>

\* an extraction loop that ends at the first element it skips
FB_ExtractBreaks ==
    /\ pc = "fb_extract"
    /\ loc.rest # <<>>
    /\ LET x == ExtractBook(Head(loc.rest), loc.env.base)
       IN IF x.skip
          THEN /\ log' = Append(log, x.warn)
               /\ loc' = [loc EXCEPT !.rest = <<>>]
          ELSE /\ loc' = [loc EXCEPT !.rest = Tail(loc.rest),
                                     !.bookListParsed = Append(@, x.book)]
               /\ UNCHANGED log
    /\ UNCHANGED <<env, fs0, fs, call, pc, net, ret>>

\* one round of the extraction loop
FB_Extract ==
    /\ pc = "fb_extract"
    /\ loc.rest # <<>>
    /\ LET x == ExtractBook(Head(loc.rest), loc.env.base)
       IN IF x.skip
          THEN /\ log' = Append(log, x.warn)
               /\ loc' = [loc EXCEPT !.rest = Tail(loc.rest)]
          ELSE /\ loc' = [loc EXCEPT !.rest = Tail(loc.rest),
                                     !.bookListParsed = Append(@, x.book)]
               /\ UNCHANGED log
    /\ UNCHANGED <<env, fs0, fs, call, pc, net, ret>>

\* the end of the loop: the count is logged and the list returned
FB_Return ==
    /\ pc = "fb_extract"
    /\ loc.rest = <<>>
    /\ log' = Append(log, Event("info", "Search completed",
                  << <<"totalElements", Itoa(Len(loc.bookList))>>,
                     <<"validBooks", Itoa(Len(loc.bookListParsed))>> >>))
    /\ ReturnVal(Val(loc.bookListParsed), NilErr)
    /\ UNCHANGED <<env, fs0, fs, call, loc, net>>

FindBook ==
    \/ \E query \in Queries, content \in Contents : StartFindBook(query, content)
    \/ FB_Start
    \/ FB_Visit
    \/ \E out \in BookPages : FB_Fetch(out)
    \/ FB_OnAnchor
    \/ FB_Wait
    \/ FB_Extract
    \/ FB_Return

----------------------------------------------------------------------------
(* One call of one operation. *)

Next ==
    \/ FindBook
    \/ BookDownload
    \/ LookupDOI
    \/ PaperDownload
    \/ DownloadTool

Spec == Init /\ [][Next]_vars

----------------------------------------------------------------------------
(* The helpers on their own: sanitizeFilename and extractMetaInformation     *)
(* applied to inputs drawn from bounded sets.                                 *)

RECURSIVE StringsUpTo(_, _)
\* the strings of at most n bytes over the bytes of S
StringsUpTo(S, n) ==
    IF n = 0 THEN { "" }
    ELSE StringsUpTo(S, n - 1) \cup
         { t \o c : t \in { u \in StringsUpTo(S, n - 1) : Len(u) = n - 1 }, c \in S }

\* the names sanitizeFilename is applied to: the short strings over a few
\* bytes, and names around the length limit
Filenames ==
    StringsUpTo({"a", ".", "/", "<", "\n"}, MaxInputLen)
    \cup { h \o Rep("a", n) \o t :
             h \in {"", "b/"}, n \in MaxNameLen - 1 .. MaxNameLen + MaxBodyOver,
             t \in {"", ".", "..", "/b", ".epub"} }
    \cup { Rep("a..", MaxNameLen \div 2) \o "b", "a b.c", "C:\\x|y?*\"z\">", "../../etc/passwd" }

\* the segments metadata strings are made of
Segments ==
    {"¤ English [en]", "epub", "0.7MB", "azw3x, Docx 12 KB", "1mb pdfs"}

\* the metadata strings extractMetaInformation is applied to: up to
\* MaxSegments segments joined by the separator, and strings without one
Metas ==
    LET RECURSIVE JoinMeta(_)
        JoinMeta(q) ==
            IF Len(q) = 1 THEN q[1] ELSE q[1] \o MetaSeparator \o JoinMeta(Tail(q))
    IN { JoinMeta(q) : q \in SeqsUpTo(Segments, MaxSegments) \ { <<>> } }
       \cup { "", "EPUB·0.7MB·2015", "¤ English [en] · EPUB · 0.7MB · 2015",
              " [x] Hindi · epub · 0.7MB", "plain · epub · 0.7MB",
              " ¤  Old  English [ang] [en] · ¤ Hindi [hi] · TXT · 3.TB" }

InitFunctions ==
    /\ env = [secret |-> "", path |-> "", base |-> ""]
    /\ fs = <<>>
    /\ fs0 = fs
    /\ call \in { [op |-> "sanitizeFilename", arg |-> x] : x \in Filenames }
                \cup { [op |-> "extractMetaInformation", arg |-> x] : x \in Metas }
    /\ pc = "fn_start"
    /\ loc = [x |-> 0]
    /\ net = <<>>
    /\ log = <<>>
    /\ ret = [done |-> FALSE, err |-> NilErr, val |-> NilVal]

\* sanitizeFilename is applied to the name
ApplySanitize ==
    /\ pc = "fn_start"
    /\ call.op = "sanitizeFilename"
    /\ loc' = [out |-> sanitizeFilename(call.arg)]
    /\ pc' = "fn_applied"
    /\ UNCHANGED <<env, fs0, fs, call, net, log, ret>>

\* sanitizeFilename is applied to its own output
ReapplySanitize ==
    /\ pc = "fn_applied"
    /\ call.op = "sanitizeFilename"
    /\ loc' = [again |-> sanitizeFilename(loc.out)] @@ loc
    /\ pc' = "fn_reapplied"
    /\ UNCHANGED <<env, fs0, fs, call, net, log, ret>>

\* extractMetaInformation is applied to the metadata string
ApplyExtractMeta ==
    /\ pc = "fn_start"
    /\ call.op = "extractMetaInformation"
    /\ loc' = [out |-> extractMetaInformation(call.arg)]
    /\ pc' = "fn_applied"
    /\ UNCHANGED <<env, fs0, fs, call, net, log, ret>>

NextFunctions ==
    \/ ApplySanitize
    \/ ReapplySanitize
    \/ ApplyExtractMeta

SpecFunctions == InitFunctions /\ [][NextFunctions]_vars

----------------------------------------------------------------------------
(* The download flows: claims. *)

Returned == pc = "done" /\ ret.done

InDownload == call.op \in {"Book.Download", "Paper.Download"}

\* the call returned after io.Copy or out.Sync failed
WriteFailed == Returned /\ InDownload /\ "copyErr" \in DOMAIN loc /\ (loc.copyErr \/ loc.syncErr)

RemoveWarned ==
    \E i \in 1 .. Len(log) :
        log[i].level = "warn" /\ log[i].msg = "Failed to remove partial file"

EmptyURLAnswer ==
    /\ call.op = "Book.Download"
    /\ "resp" \in DOMAIN loc
    /\ loc.resp.status = StatusOK /\ loc.resp.json.ok
    /\ loc.resp.json.DownloadURL = ""

\* C9: when the API answers 200 with an empty download_url, Book.Download
\* fails with "API error: <error>" if the error field is set and with the
\* empty-response error if not; it sends no download request and creates no file.
C9_EmptyDownloadURL ==
    EmptyURLAnswer =>
        /\ pc \in {"bd_api_check", "done"}
        /\ Len(net) = 1
        /\ fs = fs0
        /\ "filePath" \notin DOMAIN loc
        /\ Returned =>
              /\ ~ret.err.isNil
              /\ loc.resp.json.Error # "" =>
                     ret.err.msg = "API error: " \o loc.resp.json.Error
              /\ loc.resp.json.Error = "" =>
                     ret.err.msg = "API returned empty download URL"

\* the answer {"download_url": "", "error": "quota exceeded"}
C9_Witness ==
    /\ EmptyURLAnswer /\ Returned
    /\ loc.resp.json.Error = "quota exceeded"
    /\ ret.err.msg = "API error: quota exceeded"

\* Book.Download returned after a non-200 answer of the fast-download API
ApiNotOK ==
    /\ Returned /\ call.op = "Book.Download"
    /\ "resp" \in DOMAIN loc
    /\ loc.resp.status # StatusOK

ApiStatusHead(resp) ==
    "API request failed with status " \o Itoa(resp.status) \o ": " \o StatusLine(resp.status)

\* the length of the body part of a message that names the status
SnippetLen(msg, resp) == Len(msg) - Len(ApiStatusHead(resp)) - Len(" (body: )")

\* the message carries, as its body part, the first n bytes of the body
CarriesSnippet(msg, resp, n) ==
    /\ n \in 0 .. Len(resp.body)
    /\ msg = ApiStatusHead(resp) \o " (body: " \o SubSeq(resp.body, 1, n) \o ")"

----------------------------------------------------------------------------
(* LookupDOI: claims. *)

\* the hash an anchor carries: what follows "/md5/" in its href, "" for an
\* anchor of another path
HashOfHref(href) ==
    IF Len(href) >= 5 /\ SubSeq(href, 1, 5) = "/md5/" THEN SubSeq(href, 6, Len(href)) ELSE ""

RECURSIVE FirstHash(_)
\* the hash of the first anchor of the page that carries one, "" when none does
FirstHash(hrefs) ==
    IF hrefs = <<>> THEN ""
    ELSE IF HashOfHref(Head(hrefs)) # "" THEN HashOfHref(Head(hrefs))
    ELSE FirstHash(Tail(hrefs))

\* the phase-1 page was fetched
SearchPageFetched == call.op = "LookupDOI" /\ "searchPage" \in DOMAIN loc

\* the i-th request went to the detail page of some hash
IsDetailRequest(i) == Contains(net[i].url, "/md5/")

\* C2: when the phase-1 page carries no /md5/ anchor with a hash, LookupDOI
\* returns the not-found error and no record, and never sends the phase-2 request.
C2_NoHashNoDetail ==
    (SearchPageFetched /\ FirstHash(loc.searchPage) = "") =>
        /\ pc \in {"ld_search_html", "done"}
        /\ \A i \in 1 .. Len(net) : ~IsDetailRequest(i)
        /\ Returned =>
              /\ ret.err = Err("no paper found for DOI: " \o call.doi)
              /\ ret.val.isNil

\* a page whose only /md5/ anchor has an empty hash, and the not-found return
C2_Witness ==
    /\ SearchPageFetched /\ Returned
    /\ loc.searchPage = <<"/search?q=x", "/md5/">>
    /\ ~ret.err.isNil /\ Len(net) = 1

\* LookupDOI returned after the phase-2 fetch failed
DetailFailed ==
    /\ Returned /\ SearchPageFetched
    /\ "detailErr" \in DOMAIN loc /\ loc.detailErr

\* C3: when phase 1 found a hash and the phase-2 fetch fails, LookupDOI
\* returns no error and a record with the hash of phase 1 and the page URL.
C3_DetailFailureNotFatal ==
    DetailFailed =>
        /\ ret.err.isNil /\ ~ret.val.isNil
        /\ ret.val.v.Hash # ""
        /\ ret.val.v.Hash = FirstHash(loc.searchPage)
        /\ ret.val.v.PageURL = "https://" \o loc.env.base \o "/scidb/" \o call.doi

\* the detail request was sent and failed, and the record came back
C3_Witness ==
    /\ DetailFailed /\ Len(net) = 2 /\ IsDetailRequest(2)
    /\ ret.err.isNil /\ ret.val.v.Hash = "h2" /\ ret.val.v.Title = ""

\* C4: every record LookupDOI returns without an error has a non-empty hash.
C4_ReturnedPaperHasHash ==
    (Returned /\ call.op = "LookupDOI" /\ ret.err.isNil) =>
        ~ret.val.isNil /\ ret.val.v.Hash # ""

\* a record returned after both phases, enriched by the detail page
C4_Witness ==
    /\ Returned /\ call.op = "LookupDOI" /\ ret.err.isNil
    /\ "detailErr" \in DOMAIN loc /\ ~loc.detailErr
    /\ ret.val.v.Hash = "h1" /\ ret.val.v.Title = "On Sand"
    /\ ret.val.v.Authors = "A. Author" /\ ret.val.v.Size = "1.2MB"
    /\ ret.val.v.Journal = "J. Sand, #1, 2015"

----------------------------------------------------------------------------
(* FindBook: claims. *)

FindBookReturned == Returned /\ call.op = "FindBook"

\* the call got as far as the answer to the search request
SearchAnswered == "page" \in DOMAIN loc

\* the list the call returned
ReturnedBooks == ret.val.v

\* C5: every record of the list FindBook returns has a title that is not
\* empty and a hash that is not empty
C5_BooksHaveTitleAndHash ==
    (FindBookReturned /\ ~ret.val.isNil) =>
        \A i \in 1 .. Len(ReturnedBooks) :
            ReturnedBooks[i].Title # "" /\ ReturnedBooks[i].Hash # ""

\* a list with a record is returned although an accumulated element had a
\* blank title and another an empty hash
C5_Witness ==
    /\ FindBookReturned /\ SearchAnswered
    /\ Len(ReturnedBooks) >= 1
    /\ \E i \in 1 .. Len(loc.bookList) :
           TrimSpace(loc.bookList[i].title) = "" \/ loc.bookList[i].href = Md5Prefix

\* the element passes every check of the extraction
PassesChecks(e) ==
    /\ e.hasParent
    /\ e.hasInfo
    /\ TrimSpace(e.title) # ""
    /\ e.href # ""
    /\ TrimPrefix(e.href, Md5Prefix) # ""

RECURSIVE RecordsOfPassing(_, _)
\* the records of the elements that pass every check, in the order of the elements
RecordsOfPassing(elems, host) ==
    IF elems = <<>> THEN <<>>
    ELSE (IF PassesChecks(Head(elems)) THEN <<BookOf(Head(elems), host)>> ELSE <<>>)
             \o RecordsOfPassing(Tail(elems), host)

\* C6: the list FindBook returns is the records of the accumulated elements
\* that pass every extraction check, in the order of accumulation; an element
\* that fails a check is left out and the elements after it are still processed
C6_ResultIsPassingInOrder ==
    (FindBookReturned /\ SearchAnswered) =>
        /\ ~ret.val.isNil
        /\ ReturnedBooks = RecordsOfPassing(loc.bookList, loc.env.base)

\* an element that fails a check was accumulated before one that passes, and
\* the record of the latter is returned
C6_Witness ==
    /\ FindBookReturned /\ SearchAnswered
    /\ Len(loc.bookList) = 2
    /\ ~PassesChecks(loc.bookList[1])
    /\ PassesChecks(loc.bookList[2])
    /\ ReturnedBooks = <<BookOf(loc.bookList[2], loc.env.base)>>

\* the search request could not be issued, or its transport failed
SearchRequestFailed ==
    /\ "fullURL" \in DOMAIN loc
    /\ \/ ~URLOk(loc.fullURL)
       \/ SearchAnswered /\ loc.page.fail

\* C7: when the search request cannot be issued or its transport fails,
\* FindBook returns an error and no list
C7_SearchFailureIsError ==
    (FindBookReturned /\ SearchRequestFailed) =>
        ~ret.err.isNil /\ ret.val.isNil

\* the page was fetched and none of its anchors is accepted by the callback
NoAcceptedAnchor ==
    /\ SearchAnswered
    /\ ~loc.page.fail /\ loc.page.status = StatusOK
    /\ \A i \in 1 .. Len(loc.page.elems) :
           ~(HasPrefix(loc.page.elems[i].href, Md5Prefix)
             /\ loc.page.elems[i].class = CoverLinkClass)

\* C8: when the search page is fetched and holds no accepted anchor, FindBook
\* returns an empty list and no error
C8_NoMatchIsEmptyList ==
    (FindBookReturned /\ NoAcceptedAnchor) =>
        ret.err.isNil /\ ~ret.val.isNil /\ ReturnedBooks = <<>>

\* a page whose only anchors are a title link of another class and a link
\* that is not a record link was fetched, and the empty list returned
C8_Witness ==
    /\ FindBookReturned /\ NoAcceptedAnchor
    /\ Len(loc.page.elems) = 2
    /\ HasPrefix(loc.page.elems[1].href, Md5Prefix)
    /\ ret.err.isNil /\ ReturnedBooks = <<>>

----------------------------------------------------------------------------
(* The place and the name of the downloaded file: claims. *)

\* the path names a direct child of the directory
DirectChild(path, dir) ==
    /\ Base(path) \notin {".", "..", "/"}
    /\ path = Clean(dir) \o "/" \o Base(path)

\* C11: the file Book.Download or Paper.Download creates is a direct child of
\* the destination directory: every file on the disk that was not there
\* before the call is one
C11_FileIsDirectChild ==
    InDownload =>
        \A path \in DOMAIN fs \ DOMAIN fs0 : DirectChild(path, call.folderPath)

\* the name Book.Download is to give the file: the sanitized title, or
\* "untitled" for an empty title, a dot, and the lower-cased format, or "bin"
\* for an empty format
NamedBookFile(b) ==
    (IF b.Title = "" THEN "untitled" ELSE sanitizeFilename(b.Title))
    \o "." \o (IF b.Format = "" THEN "bin" ELSE ToLower(b.Format))

\* C16: Book.Download names the file <base>.<ext>: base the sanitized title,
\* or "untitled" when the title is empty, ext the lower-cased format, or
\* "bin" when the format is empty
C16_BookFileName ==
    (call.op = "Book.Download" /\ "filePath" \in DOMAIN loc) =>
        loc.filePath = Join(call.folderPath, NamedBookFile(call.b))

\* the extension Paper.Download is to infer: that of the filename of
\* Content-Disposition when there is one, else the first the Content-Type
\* maps to, else ".pdf"
InferredExt(cd, ct) ==
    LET m == ParseMediaType(cd)
        cdExt == IF cd # "" /\ m.ok /\ m.hasFilename THEN Ext(m.filename) ELSE ""
        ctExts == IF ct # "" THEN ExtensionsByType(ct) ELSE <<>>
    IN IF cdExt # "" THEN cdExt
       ELSE IF ctExts # <<>> THEN ctExts[1]
       ELSE ".pdf"

\* C20: the extension of the file of Paper.Download is the extension of the
\* Content-Disposition filename when that yields one, otherwise the one the
\* Content-Type maps to when it maps to one, otherwise ".pdf"; a
\* Content-Disposition that yields none still leaves the Content-Type its turn
C20_ExtensionFallsBackToContentType ==
    (call.op = "Paper.Download" /\ "filePath" \in DOMAIN loc) =>
        loc.filePath = Join(call.folderPath,
                            PaperFilename(call.p, InferredExt(loc.resp.cd, loc.resp.ct)))

----------------------------------------------------------------------------
(* sanitizeFilename: claims. *)

\* the function was applied, and out is its result
Applied(op) == call.op = op /\ pc \in {"fn_applied", "fn_reapplied"}

\* C12: the output of sanitizeFilename holds none of < > : " / \ | ? *, no
\* control character and no ".."
C12_OutputHasNoUnsafeByte ==
    Applied("sanitizeFilename") =>
        /\ \A i \in 1 .. Len(loc.out) :
               At(loc.out, i) \notin {"<", ">", ":", "\"", "/", "\\", "|", "?", "*",
                                      "\t", "\n", "\f", "\r"}
        /\ ~Contains(loc.out, "..")

\* a name with slashes and ".." sequences was sanitized
C12_Witness ==
    /\ Applied("sanitizeFilename")
    /\ call.arg = "../../etc/passwd"
    /\ loc.out = "____etc_passwd"

\* C13: sanitizeFilename applied to its own output returns that output
C13_Idempotent ==
    (call.op = "sanitizeFilename" /\ pc = "fn_reapplied") => loc.again = loc.out

\* a name the first application changed is left alone by the second
C13_Witness ==
    /\ call.op = "sanitizeFilename" /\ pc = "fn_reapplied"
    /\ call.arg = "C:\\x|y?*\"z\">"
    /\ loc.out = "C__x_y___z__"
    /\ loc.again = loc.out

\* C14: the output of sanitizeFilename is at most 200 long, whatever the
\* length of the input
C14_OutputAtMost200 ==
    Applied("sanitizeFilename") => Len(loc.out) <= 200

\* a name longer than 200 was cut to 200
C14_Witness ==
    /\ Applied("sanitizeFilename")
    /\ Len(call.arg) > 200
    /\ Len(loc.out) = 200

\* C15: sanitizeFilename of the empty string is the empty string
C15_EmptyGivesEmpty ==
    (Applied("sanitizeFilename") /\ call.arg = "") => loc.out = ""

----------------------------------------------------------------------------
(* extractMetaInformation: claims. *)

\* the segments of the metadata string
SegmentsOf(meta) == Split(meta, " · ")

NoMeta == [language |-> "", format |-> "", size |-> ""]

\* C17: a metadata string of fewer than 3 segments gives an empty language,
\* format and size
C17_FewSegmentsGiveNothing ==
    (Applied("extractMetaInformation") /\ Len(SegmentsOf(call.arg)) < 3) =>
        loc.out = NoMeta

\* two segments that carry a format and a size gave nothing
C17_Witness ==
    /\ Applied("extractMetaInformation")
    /\ call.arg = "epub · 0.7MB"
    /\ loc.out = NoMeta

\* the language of a segment: its text before the first "[", without the
\* white space around it, a leading check mark and the white space after it
LanguageOf(segment) ==
    LET i == Index(segment, "[")
        text == TrimSpace(SubSeq(segment, 1, i))
    IN TrimSpace(IF HasPrefix(text, "¤") THEN SubSeq(text, 2, Len(text)) ELSE text)

FormatWhitelist ==
    {"EPUB", "PDF", "MOBI", "AZW3", "AZW", "DJVU", "CBZ", "CBR", "FB2", "DOC", "DOCX", "TXT"}

\* C19: for a string of at least 3 segments, the format is the upper-cased
\* token of the leftmost later segment that holds one and the size the
\* leftmost later segment that matches the size pattern, each wherever the
\* other is found; what no segment holds stays empty, and the format is empty
\* or a token of the whitelist
C19_LeftmostFormatAndSize ==
    (Applied("extractMetaInformation") /\ Len(SegmentsOf(call.arg)) >= 3) =>
        LET parts == SegmentsOf(call.arg)
            \* the segment after the first, trimmed
            Later(i) == TrimSpace(parts[i])
            F == { i \in 2 .. Len(parts) : FormatMatch(Later(i)) }
            S == { i \in 2 .. Len(parts) : SizeMatch(Later(i)) }
            \* the leftmost of a non-empty set of segments
            Leftmost(I) == Later(CHOOSE i \in I : \A j \in I : i <= j)
        IN /\ loc.out.format =
                  IF F = {} THEN "" ELSE ToUpper(FormatSubmatch(Leftmost(F)))
           /\ loc.out.size = IF S = {} THEN "" ELSE Leftmost(S)
           /\ loc.out.format \in FormatWhitelist \cup {""}

\* the size was found in a segment before the one of the format, after a
\* segment that holds neither
C19_Witness ==
    /\ Applied("extractMetaInformation")
    /\ call.arg = "¤ English [en] · 1mb pdfs · 0.7MB · epub"
    /\ loc.out.format = "EPUB" /\ loc.out.size = "0.7MB"

----------------------------------------------------------------------------
(* The requests and the order of the steps: claims. *)

\* C21: Paper.Download on a record whose download reference is empty sends
\* no request and creates no file at any point of the call, takes no step
\* after the check, and returns the no-download-URL error
C21_NoReferenceNoRequest ==
    (call.op = "Paper.Download" /\ call.p.DownloadURL = "") =>
        /\ net = <<>>
        /\ fs = fs0
        /\ pc \in {"pd_start", "done"}
        /\ ret.done => ret.err = Err("no download URL available for this paper")

\* the call on a record without a reference has returned, and the disk held
\* a file before it
C21_Witness ==
    /\ call.op = "Paper.Download" /\ call.p.DownloadURL = ""
    /\ ret.done /\ ret.err.msg = "no download URL available for this paper"
    /\ fs0 # <<>> /\ fs = fs0 /\ net = <<>>

\* C22: a step sends at most one request, and never one the call has sent
\* before; once an answer has failed (in transport or with an error status)
\* or the call has returned, no step sends a request; Book.Download and
\* LookupDOI send at most two requests, FindBook and Paper.Download one
C22_NoRequestReissued ==
    [][LET Has(f) == f \in DOMAIN loc
           \* an answer of this call was a failure
           AnswerFailed ==
               \/ ret.done
               \/ pc = "bd_api_check" /\ loc.resp.status # StatusOK
               \/ Has("downloadResp") /\ loc.downloadResp.status # StatusOK
               \/ Has("page") /\ (loc.page.fail \/ loc.page.status # StatusOK)
               \/ Has("detailErr") /\ loc.detailErr
               \/ call.op = "Paper.Download" /\ Has("resp") /\ loc.resp.status # StatusOK
       IN /\ net' # net =>
               /\ Len(net') = Len(net) + 1
               /\ SubSeq(net', 1, Len(net)) = net
               /\ \A i \in 1 .. Len(net) : net[i] # net'[Len(net')]
               /\ Len(net') <= IF call.op \in {"Book.Download", "LookupDOI"} THEN 2 ELSE 1
          /\ AnswerFailed => net' = net]_vars

\* the second request of Book.Download timed out, and the call returned
\* with the two requests it had sent
C22_Witness ==
    /\ call.op = "Book.Download" /\ ret.done
    /\ Len(net) = 2 /\ net[1] # net[2]
    /\ Contains(ret.err.msg, "failed to download file")
    /\ Contains(ret.err.msg, "context deadline exceeded")

\* C23: the first request of Book.Download is a GET to
\* https://<host>/dyn/api/fast_download.json?md5=<hash>&key=<secret>, with the
\* configured host (the default host when none is configured), the hash of
\* the record and the secret key the caller passed
C23_FirstRequestOfBookDownload ==
    (call.op = "Book.Download" /\ net # <<>>) =>
        /\ net[1].method = "GET"
        /\ net[1].url =
               "https://" \o (IF env.base = "" THEN "annas-archive.li" ELSE env.base)
                   \o "/dyn/api/fast_download.json?md5=" \o call.b.Hash
                   \o "&key=" \o call.secretKey

\* the request was sent to a configured mirror with a key that is not the one
\* of the configuration
C23_Witness ==
    /\ call.op = "Book.Download" /\ net # <<>>
    /\ call.secretKey # env.secret
    /\ net[1].url = "https://mirror.org/dyn/api/fast_download.json?md5=abc&key=k2"

\* C24: when the phase-1 request of LookupDOI fails in transport (the error
\* callback saw no status), the call has returned the lookup error and no
\* record, and the one request it sent is the one of phase 1
C24_SearchTransportFailureIsFatal ==
    LET TransportFailed ==
            /\ call.op = "LookupDOI"
            /\ \E i \in 1 .. Len(log) :
                   /\ log[i].msg = "SciDB search failed"
                   /\ log[i].fields[2] = <<"statusCode", "0">>
    IN TransportFailed =>
           /\ ret.done /\ ret.val.isNil
           /\ ~ret.err.isNil /\ HasPrefix(ret.err.msg, "failed to lookup DOI: ")
           /\ Len(net) = 1 /\ ~IsDetailRequest(1)

\* the phase-1 request timed out and the call returned the error
C24_Witness ==
    /\ call.op = "LookupDOI" /\ ret.done /\ ret.val.isNil
    /\ Len(net) = 1 /\ net[1].url = "https://annas-archive.li/scidb/10.1/x"
    /\ Contains(ret.err.msg, "context deadline exceeded")
    /\ Len(log) = 2 /\ log[2].msg = "SciDB search failed"

\* C25: in LookupDOI the hash of the record is empty or the hash of the
\* first /md5/ anchor of the phase-1 page that carries one; it is that hash
\* when the callbacks of phase 1 are done; and once it is set no step
\* changes it, in phase 1 or in phase 2, up to the record that is returned
C25_FirstHashWinsAndStays ==
    /\ [](SearchPageFetched =>
             /\ loc.paper.Hash \in {"", FirstHash(loc.searchPage)}
             /\ loc.todo = <<>> => loc.paper.Hash = FirstHash(loc.searchPage)
             /\ (ret.done /\ ~ret.val.isNil) => ret.val.v.Hash = FirstHash(loc.searchPage))
    /\ [][(SearchPageFetched /\ loc.paper.Hash # "") => loc'.paper.Hash = loc.paper.Hash]_vars

\* the page of phase 1 carried two hashes, the detail page was read, and the
\* record has the first hash
C25_Witness ==
    /\ SearchPageFetched /\ ret.done
    /\ loc.searchPage = <<"/md5/h2", "/md5/h1">>
    /\ "detailPage" \in DOMAIN loc /\ Len(loc.detailPage) > 0
    /\ ret.val.v.Hash = "h2"

----------------------------------------------------------------------------
(* FindBook: the accumulator. *)

C27_AcceptedIffPrefixAndClass ==
    (call.op = "FindBook" /\ SearchAnswered /\ ~loc.page.fail
         /\ pc \in {"fb_extract", "done"}) =>
        LET elems == loc.page.elems
            cover == "custom-a block mr-2 sm:mr-4 hover:opacity-80"
            IsPrimary(e) == HasPrefix(e.href, "/md5/") /\ e.class = cover
        IN /\ \A i \in 1 .. Len(elems) :
                  IsPrimary(elems[i]) <=>
                      \E j \in 1 .. Len(loc.bookList) : loc.bookList[j] = elems[i]
           /\ Len(loc.bookList) = Cardinality({ i \in 1 .. Len(elems) : IsPrimary(elems[i]) })
           /\ (/\ Len(elems) = 2
               /\ elems[1].href = elems[2].href
               /\ IsPrimary(elems[1]) /\ ~IsPrimary(elems[2])) =>
                  /\ loc.bookList = <<elems[1]>>
                  /\ ret.done => Len(ret.val.v) <= 1

\* a listing with the cover anchor and the title anchor of one book was
\* fetched, and one record returned
C27_Witness ==
    /\ call.op = "FindBook" /\ ret.done /\ SearchAnswered /\ ~loc.page.fail
    /\ Len(loc.page.elems) = 2
    /\ loc.page.elems[1].href = "/md5/h1" /\ loc.page.elems[2].href = "/md5/h1"
    /\ loc.page.elems[1].class # loc.page.elems[2].class
    /\ Len(loc.bookList) = 1
    /\ Len(ret.val.v) = 1 /\ ret.val.v[1].Title = "Dune"

----------------------------------------------------------------------------
(* The downloads: the order of the steps and the file. *)

\* C28: in Book.Download a second request has been sent only if the API
\* answered 200 with an envelope that decodes and names a download URL, and
\* it went to that URL; a step touches the disk only after the second
\* request was answered 200; and a call that returns before it reaches the
\* creation of the file returns an error and leaves the disk as it was
C28_StepsGateEachOther ==
    /\ [](call.op = "Book.Download" =>
             LET Has(f) == f \in DOMAIN loc
             IN /\ Len(net) >= 2 =>
                       /\ Has("resp") /\ loc.resp.status = 200
                       /\ loc.resp.json.ok /\ loc.resp.json.DownloadURL # ""
                       /\ net[2].url = loc.resp.json.DownloadURL
                /\ (ret.done /\ ~Has("filePath")) => (~ret.err.isNil /\ fs = fs0))
    /\ [][(call.op = "Book.Download" /\ fs' # fs) =>
              /\ Len(net) = 2
              /\ "downloadResp" \in DOMAIN loc /\ loc.downloadResp.status = 200]_vars

\* the API named a URL, the request for the file was answered 404, and the
\* call returned with the file of an earlier download untouched
C28_Witness ==
    /\ call.op = "Book.Download" /\ ret.done /\ ~ret.err.isNil
    /\ Len(net) = 2
    /\ "downloadResp" \in DOMAIN loc /\ loc.downloadResp.status = 404
    /\ fs0 # <<>> /\ fs = fs0

\* C29: when Book.Download or Paper.Download has returned without an error,
\* every chunk of the body was copied, the copy and the sync did not fail,
\* and the file exists at the target path and holds the whole body
C29_SuccessMeansWholeFile ==
    (ret.done /\ ret.err.isNil /\ call.op \in {"Book.Download", "Paper.Download"}) =>
        LET RECURSIVE Whole(_)
            \* the body, its chunks put together
            Whole(chunks) == IF chunks = <<>> THEN "" ELSE Head(chunks) \o Whole(Tail(chunks))
            body == Whole(IF call.op = "Book.Download" THEN loc.downloadResp.chunks
                          ELSE loc.resp.chunks)
        IN /\ loc.rest = <<>> /\ loc.written = Len(body)
           /\ ~loc.copyErr /\ ~loc.syncErr /\ loc.success
           /\ loc.filePath \in DOMAIN fs
           /\ fs[loc.filePath] = body

\* a book of two chunks was written over the file of an earlier download
C29_Witness ==
    /\ call.op = "Book.Download" /\ ret.done /\ ret.err.isNil
    /\ fs0 = ("/dl/Dune.epub" :> "OLD")
    /\ fs = ("/dl/Dune.epub" :> "ABAB")
    /\ loc.written = 4

\* C30: after Book.Download or Paper.Download has returned an error, the
\* disk is as it was before the call: nothing was added, and a file that was
\* at the target path still is, with the content it had
C30_FailedDownloadLeavesDisk ==
    (ret.done /\ ~ret.err.isNil /\ call.op \in {"Book.Download", "Paper.Download"}) =>
        /\ DOMAIN fs = DOMAIN fs0
        /\ \A path \in DOMAIN fs0 : fs[path] = fs0[path]

----------------------------------------------------------------------------
(* The secret key. *)

\* C31: the secret key of the configuration and the one passed to
\* Book.Download occur in no error a call returns and in no log event, neither
\* in its message nor in a field
C31_SecretKeyInNoErrorOrLog ==
    LET keys == ({env.secret} \cup
                    (IF "secretKey" \in DOMAIN call THEN {call.secretKey} ELSE {})) \ {""}
    IN \A key \in keys :
           /\ ~Contains(ret.err.msg, key)
           /\ \A i \in 1 .. Len(log) :
                  /\ ~Contains(log[i].msg, key)
                  /\ \A j \in 1 .. Len(log[i].fields) :
                         ~Contains(log[i].fields[j][2], key)

====
